---- MODULE Spec2Model ----
(***************************************************************************)
(* A model of the cloud-buckets-sync service: the local SQLite store       *)
(* (DatabaseManager), the event processor (EventProcessor) and the sync    *)
(* orchestrator (SyncService).                                             *)
(*                                                                         *)
(* Encodings.  Python None for an optional text is the token NoneVal.      *)
(* An Optional[FileRecord] is a sequence of length 0 (None) or 1.  A       *)
(* metadata dict is a function from its keys to values; None and {} are    *)
(* both the function with the empty domain (the code only ever tests the   *)
(* truthiness of a metadata dict).  A datetime is a positive integer; a    *)
(* timestamp that is not a datetime instance (a text) is NotADatetime.     *)
(* A metadata size that int() cannot parse is UnparsableSize.              *)
(***************************************************************************)
EXTENDS Integers, Sequences, FiniteSets, Bags, TLC

\* ---------------------------------------------------------------- bounds
\* longest event batch handed to process_events
MaxEvents == 2
\* number of distinct instants event timestamps are drawn from
MaxTime == 2

\* ------------------------------------------------------------- encodings
NoneVal == "<None>"
NotADatetime == 0 - 1
UnparsableSize == 0 - 1
NoMetadata == [k \in {} |-> ""]

IsDatetime(ts) == ts >= 1
Falsy(text) == text = NoneVal \/ text = ""

Paths == {"a", "b"}
Times == 1..MaxTime

VARIABLES
    db,             \* the file_records table: a bag of rows
    db0,            \* the table when process_events was called
    events,         \* the argument of process_events (fetch order)
    sorted_events,  \* process_events: the list the loop iterates over
    ev_i,           \* process_events: index of the next event of the loop
    event_counts,   \* process_events: the count map
    ev_calls,       \* process_events: the store methods called so far, in order
    ep_pc,          \* process_events: "idle", "call", "loop", "returned", "raised"
    t_pc,           \* per thread: "idle", "write", "insert", "import_conflict"
    t_task,         \* per thread: the event, operation or record being handled
    t_rec,          \* per thread: existing_record, as read by get_file_record
    sy_pc,          \* sync run: "idle", "export_old", "pull", "export_new", "diff",
                    \*           "exec", "files", "except", "cleanup", "done"
    sync_type,      \* sync run: "none", "initial" or "incremental"
    conn,           \* which of S3, the API and the store answer the connection tests
    sync_stats,     \* sync run: the statistics dict
    files,          \* the data/ directory: path -> rows of the CSV file at that path
    old_csv_path,   \* run_incremental_sync: NoneVal until the old export starts
    new_csv_path,   \* run_incremental_sync: NoneVal until the new export starts
    operations,     \* run_incremental_sync: the list returned by process_csv_diff
    op_i,           \* run_incremental_sync: index of the next operation of the loop
    objects,        \* run_initial_sync: the listing of the customer bucket
    obj_i,          \* run_initial_sync: index of the next object of the loop
    calls,          \* sync run: <<callee, argument>> of each call made, in order
    run_db,         \* the table when the sync run was called
    cleanup_warnings, \* paths _cleanup_temp_files logged a warning for
    exception,      \* sync run: the message of the exception the try block raised
    outcome,        \* sync run: "none", "returned" or "raised"
    u_op,           \* direct call of one method: its name, "none" before any call
    u_arg,          \* direct call: the arguments (and the table before the call)
    u_res,          \* direct call: what the call returned or raised
    loops,          \* periodic sync: the loops of the process, [kind, pc, remaining, last]
    sync_interval,  \* periodic sync: config.sync_interval, in seconds
    runs            \* concurrent runs: per thread, the locals of its run_incremental_sync

evVars == <<db0, events, sorted_events, ev_i, event_counts, ev_calls, ep_pc>>
stVars == <<t_pc, t_task, t_rec>>
syVars == <<sy_pc, sync_type, conn, sync_stats, files, old_csv_path, new_csv_path,
            operations, op_i, objects, obj_i, calls, run_db, cleanup_warnings,
            exception, outcome>>
unVars == <<u_op, u_arg, u_res>>
pdVars == <<loops, sync_interval>>
rnVars == <<runs>>
vars == <<db, evVars, stVars, syVars, unVars, pdVars, rnVars>>

\* ---------------------------------------------------- DatabaseManager
rows_at(store, path) == {r \in BagToSet(store) : r.file_path = path}

without_path(store, path) ==
    [r \in {x \in BagToSet(store) : x.file_path # path} |-> store[r]]

\* (variant) INSERT on a table without the UNIQUE constraint
insert_file_record_no_unique(store, record) ==
    [ok |-> TRUE, db |-> store (+) SetToBag({record})]

\* INSERT: the UNIQUE constraint on file_path raises IntegrityError
insert_file_record(store, record) ==
    IF rows_at(store, record.file_path) # {}
    THEN [ok |-> FALSE, db |-> store]
    ELSE [ok |-> TRUE, db |-> store (+) SetToBag({record})]

\* UPDATE ... WHERE file_path = ?: every matching row takes the new values
update_file_record(store, record) ==
    LET n == BagCardinality(store) - BagCardinality(without_path(store, record.file_path))
    IN  IF n = 0 THEN store
        ELSE without_path(store, record.file_path) (+) [r \in {record} |-> n]

delete_file_record(store, path) == without_path(store, path)

get_file_record(store, path) ==
    IF rows_at(store, path) = {} THEN <<>>
    ELSE <<CHOOSE r \in rows_at(store, path) : TRUE>>

\* (variant) INSERT OR IGNORE: a conflicting row keeps its values
upsert_file_record_ignore(store, record) ==
    IF rows_at(store, record.file_path) # {} THEN store
    ELSE store (+) SetToBag({record})

\* INSERT OR REPLACE: the conflicting rows are deleted, then the row is inserted
upsert_file_record(store, record) ==
    without_path(store, record.file_path) (+) SetToBag({record})

get_record_count(store) == BagCardinality(store)

\* ------------------------------------------------------ EventProcessor
EventTypes == {"change_permission", "delete", "create", "rename", "move"}
CountKeys == EventTypes \cup {"errors"}

\* (variant) validation without the new_path requirement
validate_event_no_new_path(e) ==
    /\ e.event_type \in EventTypes
    /\ e.file_path # ""
    /\ IsDatetime(e.timestamp)

validate_event(e) ==
    /\ e.event_type # ""
    /\ e.event_type \in EventTypes
    /\ e.file_path # ""
    /\ (e.event_type \in {"rename", "move"} => ~Falsy(e.new_path))
    /\ IsDatetime(e.timestamp)

\* (variant) the keys tried in the opposite order
permission_keys_reversed == <<"access", "perms", "permission", "permissions">>
permission_keys == <<"permissions", "permission", "perms", "access">>

\* a value that is not a text is written "<int 644>" or "<None>"
IntValue == "<int 644>"

\* str(value)
str(value) ==
    IF value = NoneVal THEN "None"
    ELSE IF value = IntValue THEN "644"
    ELSE value

extract_permissions_from_metadata(metadata) ==
    LET present == {i \in 1..4 : permission_keys[i] \in DOMAIN metadata}
    IN  IF DOMAIN metadata = {} \/ present = {} THEN <<>>
        ELSE <<str(metadata[permission_keys[CHOOSE i \in present :
                                               \A j \in present : i <= j]])>>

create_file_record_from_event(e) ==
    LET m == e.metadata
        p == extract_permissions_from_metadata(m)
    IN  IF DOMAIN m = {} THEN <<>>
        ELSE IF "size" \in DOMAIN m /\ m["size"] = UnparsableSize THEN <<>>
        ELSE <<[file_path |-> e.file_path,
                permissions |-> IF p = <<>> \/ p[1] = "" THEN "unknown" ELSE p[1],
                size |-> IF "size" \in DOMAIN m THEN m["size"] ELSE 0,
                file_type |-> IF "file_type" \in DOMAIN m THEN m["file_type"] ELSE "unknown",
                last_modified |-> e.timestamp,
                internal_id |-> IF "internal_id" \in DOMAIN m THEN m["internal_id"] ELSE NoneVal]>>

\* Each handler yields [ok, db]: ok = FALSE when it raises, db is the table it leaves.
handle_change_permission(store, e) ==
    LET existing == get_file_record(store, e.file_path)
        perms == extract_permissions_from_metadata(e.metadata)
    IN  IF existing = <<>> THEN [ok |-> TRUE, db |-> store]
        ELSE IF perms = <<>> THEN [ok |-> TRUE, db |-> store]
        ELSE [ok |-> TRUE,
              db |-> update_file_record(store,
                        [existing[1] EXCEPT !.permissions = perms[1],
                                            !.last_modified = e.timestamp])]

handle_delete(store, e) ==
    IF get_file_record(store, e.file_path) = <<>> THEN [ok |-> TRUE, db |-> store]
    ELSE [ok |-> TRUE, db |-> delete_file_record(store, e.file_path)]

\* (variant) create without the existence check, writing over the record
handle_create_overwrite(store, e) ==
    LET rec == create_file_record_from_event(e)
    IN  IF rec = <<>> THEN [ok |-> TRUE, db |-> store]
        ELSE [ok |-> TRUE, db |-> upsert_file_record(store, rec[1])]

handle_create(store, e) ==
    LET rec == create_file_record_from_event(e)
    IN  IF get_file_record(store, e.file_path) # <<>> THEN [ok |-> TRUE, db |-> store]
        ELSE IF rec = <<>> THEN [ok |-> TRUE, db |-> store]
        ELSE insert_file_record(store, rec[1])

handle_rename(store, e) ==
    LET existing == get_file_record(store, e.file_path)
    IN  IF existing = <<>> THEN [ok |-> TRUE, db |-> store]
        ELSE insert_file_record(delete_file_record(store, e.file_path),
                 [existing[1] EXCEPT !.file_path = e.new_path,
                                     !.last_modified = e.timestamp])

\* the metadata overlay of a move; int(size) raises on an unparsable size
move_overlay(record, metadata) ==
    LET p == extract_permissions_from_metadata(metadata)
        r1 == IF p # <<>> /\ p[1] # "" THEN [record EXCEPT !.permissions = p[1]] ELSE record
        r2 == IF "size" \in DOMAIN metadata THEN [r1 EXCEPT !.size = metadata["size"]] ELSE r1
    IN  IF "file_type" \in DOMAIN metadata /\ metadata["file_type"] # ""
        THEN [r2 EXCEPT !.file_type = metadata["file_type"]] ELSE r2

handle_move(store, e) ==
    LET existing == get_file_record(store, e.file_path)
        deleted == delete_file_record(store, e.file_path)
        moved == [existing[1] EXCEPT !.file_path = e.new_path,
                                     !.last_modified = e.timestamp]
    IN  IF existing = <<>> THEN [ok |-> TRUE, db |-> store]
        ELSE IF "size" \in DOMAIN e.metadata /\ e.metadata["size"] = UnparsableSize
             THEN [ok |-> FALSE, db |-> deleted]
        ELSE insert_file_record(deleted, move_overlay(moved, e.metadata))

process_single_event(store, e) ==
    CASE e.event_type = "change_permission" -> handle_change_permission(store, e)
      [] e.event_type = "delete" -> handle_delete(store, e)
      [] e.event_type = "create" -> handle_create(store, e)
      [] e.event_type = "rename" -> handle_rename(store, e)
      [] e.event_type = "move" -> handle_move(store, e)
      [] OTHER -> [ok |-> FALSE, db |-> store]

EmptyCounts == [k \in {} |-> 0]
ZeroCounts == [k \in CountKeys |-> 0]

\* the store methods one iteration calls, in order: none for an event that
\* fails validation, get_file_record first for every other one
store_calls(store, e) ==
    LET found == get_file_record(store, e.file_path) # <<>>
        t == e.event_type
        then(c) == IF found THEN c ELSE <<>>
    IN  IF ~validate_event(e) THEN <<>>
        ELSE <<"get_file_record">> \o
             CASE t = "change_permission" ->
                    then(IF extract_permissions_from_metadata(e.metadata) # <<>>
                         THEN <<"update_file_record">> ELSE <<>>)
               [] t = "delete" -> then(<<"delete_file_record">>)
               [] t = "create" ->
                    IF ~found /\ create_file_record_from_event(e) # <<>>
                    THEN <<"insert_file_record">> ELSE <<>>
               [] t = "rename" -> then(<<"delete_file_record", "insert_file_record">>)
               [] OTHER ->
                    then(IF "size" \in DOMAIN e.metadata /\ e.metadata["size"] = UnparsableSize
                         THEN <<"delete_file_record">>
                         ELSE <<"delete_file_record", "insert_file_record">>)

\* one iteration of the loop of process_events
process_event_step(store, counts, e) ==
    IF ~validate_event(e)
    THEN [db |-> store, counts |-> [counts EXCEPT !["errors"] = @ + 1]]
    ELSE LET h == process_single_event(store, e)
         IN  IF h.ok
             THEN [db |-> h.db, counts |-> [counts EXCEPT ![e.event_type] = @ + 1]]
             ELSE [db |-> h.db, counts |-> [counts EXCEPT !["errors"] = @ + 1]]

\* sorted(events, key=timestamp) compares a datetime with a text: TypeError
sort_raises(evs) ==
    \E i, j \in 1..Len(evs) : IsDatetime(evs[i].timestamp) # IsDatetime(evs[j].timestamp)

\* the position of e in an ascending list s, after every element not later than e
insert_by_timestamp(s, e) ==
    LET k == Cardinality({i \in 1..Len(s) : s[i].timestamp <= e.timestamp})
    IN  SubSeq(s, 1, k) \o <<e>> \o SubSeq(s, k + 1, Len(s))

\* (variant) the batch is iterated in fetch order
sort_events_fetch_order(evs) == evs

RECURSIVE sort_events(_)
\* sorted() is stable: events of equal timestamp keep their fetch order
sort_events(evs) ==
    IF evs = <<>> THEN <<>>
    ELSE insert_by_timestamp(sort_events(SubSeq(evs, 1, Len(evs) - 1)), evs[Len(evs)])

RECURSIVE process_loop(_, _, _)
process_loop(store, counts, evs) ==
    IF evs = <<>> THEN [db |-> store, counts |-> counts]
    ELSE LET s == process_event_step(store, counts, Head(evs))
         IN  process_loop(s.db, s.counts, Tail(evs))

\* (variant) the empty batch is not returned early
no_events_unchecked(evs) == FALSE
\* if not events
no_events(evs) == evs = <<>>

\* process_events as a whole: [raised, db, counts]
process_events(store, evs) ==
    IF no_events(evs) THEN [raised |-> FALSE, db |-> store, counts |-> EmptyCounts]
    ELSE IF sort_raises(evs) THEN [raised |-> TRUE, db |-> store, counts |-> EmptyCounts]
    ELSE LET r == process_loop(store, ZeroCounts, sort_events(evs))
         IN  [raised |-> FALSE, db |-> r.db, counts |-> r.counts]

\* ------------------------------------------- process_events, step by step
EvCall ==
    /\ ep_pc = "call"
    /\ IF no_events(events)
       THEN /\ ep_pc' = "returned"
            /\ event_counts' = EmptyCounts
            /\ UNCHANGED <<sorted_events, ev_i>>
       ELSE IF sort_raises(events)
       THEN /\ ep_pc' = "raised"
            /\ UNCHANGED <<sorted_events, ev_i, event_counts>>
       ELSE /\ sorted_events' = sort_events(events)
            /\ event_counts' = ZeroCounts
            /\ ev_i' = 1
            /\ ep_pc' = IF events = <<>> THEN "returned" ELSE "loop"
    /\ UNCHANGED <<db, db0, events, ev_calls, stVars, syVars, unVars, pdVars, rnVars>>

EvStep ==
    /\ ep_pc = "loop"
    /\ ev_i <= Len(sorted_events)
    /\ LET s == process_event_step(db, event_counts, sorted_events[ev_i])
       IN  /\ db' = s.db
           /\ event_counts' = s.counts
    /\ ev_calls' = ev_calls \o store_calls(db, sorted_events[ev_i])
    /\ ev_i' = ev_i + 1
    /\ ep_pc' = IF ev_i = Len(sorted_events) THEN "returned" ELSE "loop"
    /\ UNCHANGED <<db0, events, sorted_events, stVars, syVars, unVars, pdVars, rnVars>>

\* ------------------------------------------------- claims on process_events
CurrentEvent == sorted_events[ev_i]
InLoop == ep_pc = "loop" /\ ev_i <= Len(sorted_events)
SumCounts(c) == c["change_permission"] + c["delete"] + c["create"] + c["rename"]
                    + c["move"] + c["errors"]
IncCount(c, k) == [c EXCEPT ![k] = @ + 1]

DistinctTimestamps(evs) ==
    /\ \A i \in 1..Len(evs) : IsDatetime(evs[i].timestamp)
    /\ \A i, j \in 1..Len(evs) : i # j => evs[i].timestamp # evs[j].timestamp

BatchPermutations(evs) ==
    {[i \in 1..Len(evs) |-> evs[f[i]]] :
        f \in {g \in [1..Len(evs) -> 1..Len(evs)] :
                 \A i, j \in 1..Len(evs) : i # j => g[i] # g[j]}}

\* the events of a set (distinct timestamps) in ascending timestamp order
RECURSIVE Ascending(_)
Ascending(S) ==
    IF S = {} THEN <<>>
    ELSE LET m == CHOOSE e \in S : \A x \in S : e.timestamp <= x.timestamp
         IN  <<m>> \o Ascending(S \ {m})

Touches(e, path) ==
    \/ e.file_path = path
    \/ e.event_type \in {"rename", "move"} /\ e.new_path = path

\* the rows at path are those left by the latest event of the batch that names path
LatestWriterWins(path) ==
    LET all == {events[i] : i \in 1..Len(events)}
        on == {e \in all : Touches(e, path)}
    IN  IF on = {} THEN rows_at(db, path) = rows_at(db0, path)
        ELSE LET last == CHOOSE e \in on : \A x \in on : x.timestamp <= e.timestamp
                 upto == Ascending({e \in all : e.timestamp <= last.timestamp})
             IN  rows_at(db, path) = rows_at(process_loop(db0, ZeroCounts, upto).db, path)

\* C2: process_events applies the events in ascending timestamp order whatever
\* the fetch order: for a batch of pairwise distinct timestamps every
\* permutation of the batch gives the same final table and the same count map
\* as the run observed, and the rows at each path are those left by the
\* latest event that names the path.
C2_AscendingOrderWhateverFetchOrder ==
    /\ (ep_pc \in {"loop", "returned"} /\ DistinctTimestamps(events)) =>
          \A i, j \in 1..Len(sorted_events) :
              i < j => sorted_events[i].timestamp < sorted_events[j].timestamp
    /\ (ep_pc = "returned" /\ DistinctTimestamps(events)) =>
          /\ \A p \in BatchPermutations(events) :
                LET r == process_events(db0, p)
                IN  ~r.raised /\ r.db = db /\ r.counts = event_counts
          /\ \A path \in Paths : LatestWriterWins(path)

\* C2 witness: a batch fetched out of timestamp order has been processed, and
\* applying it in fetch order would have given another table.
C2_Witness ==
    /\ ep_pc = "returned"
    /\ Len(events) >= 2
    /\ DistinctTimestamps(events)
    /\ events # sorted_events
    /\ process_loop(db0, ZeroCounts, events).db # db

\* C3 (as claimed): for every non-empty batch process_events does not abort on
\* a failing event; it returns a map with the six keys whose values sum to
\* the number of events.
C3_NeverAbortsCountsEveryEvent ==
    /\ ep_pc # "raised"
    /\ (ep_pc = "returned" /\ events # <<>>) =>
          /\ DOMAIN event_counts = CountKeys
          /\ SumCounts(event_counts) = Len(events)

InvalidShape(e) ==
    \/ e.event_type \notin EventTypes
    \/ e.file_path = ""
    \/ e.event_type \in {"rename", "move"} /\ Falsy(e.new_path)

WithoutInvalidShapes(evs) == SelectSeq(evs, LAMBDA e : ~InvalidShape(e))

\* C4: an event of unknown type, with an empty file_path, or a rename/move
\* without new_path is counted under errors and leaves the table unchanged,
\* the loop goes on to the next event, and the batch ends with the table and
\* the per-type counts of the same batch without these events.
C4_InvalidShapeRejected ==
    /\ [][(InLoop /\ InvalidShape(CurrentEvent)) =>
             /\ db' = db
             /\ event_counts' = IncCount(event_counts, "errors")
             /\ ev_i' = ev_i + 1
             /\ ep_pc' = IF ev_i < Len(sorted_events) THEN "loop" ELSE "returned"]_vars
    /\ [](ep_pc = "returned" /\ events # <<>> =>
             LET rest == WithoutInvalidShapes(events)
                 r == process_events(db0, rest)
                 c == IF rest = <<>> THEN ZeroCounts ELSE r.counts
             IN  /\ db = r.db
                 /\ \A k \in EventTypes : event_counts[k] = c[k]
                 /\ event_counts["errors"] = c["errors"] + Len(events) - Len(rest))

\* C4 witness: a batch with a valid create and an invalid event has returned:
\* the create is applied and counted, the invalid event is counted as an error.
C4_Witness ==
    /\ ep_pc = "returned"
    /\ \E i \in 1..Len(events) : InvalidShape(events[i])
    /\ event_counts["create"] = 1
    /\ event_counts["errors"] = 1
    /\ BagCardinality(db) = BagCardinality(db0) + 1

HasPermissionKey(metadata) ==
    \E i \in 1..4 : permission_keys[i] \in DOMAIN metadata

MissingPrecondition(store, e) ==
    /\ validate_event(e)
    /\ \/ /\ e.event_type \in {"change_permission", "delete", "rename", "move"}
          /\ rows_at(store, e.file_path) = {}
       \/ e.event_type = "change_permission" /\ ~HasPermissionKey(e.metadata)
       \/ e.event_type = "create" /\ rows_at(store, e.file_path) # {}
       \/ e.event_type = "create" /\ DOMAIN e.metadata = {}

\* C5: a valid event whose precondition is missing leaves the table unchanged
\* (a create never writes over an existing record) and is counted under its
\* own event type, not under errors.
C5_MissingPreconditionIsNoOp ==
    [][(InLoop /\ MissingPrecondition(db, CurrentEvent)) =>
          /\ db' = db
          /\ event_counts' = IncCount(event_counts, CurrentEvent.event_type)]_vars

\* C5 witness: a create on a path that has a record has been processed and
\* counted as a create.
C5_Witness ==
    /\ ep_pc = "returned"
    /\ Len(events) = 1
    /\ events[1].event_type = "create"
    /\ DOMAIN events[1].metadata # {}
    /\ rows_at(db0, events[1].file_path) # {}
    /\ MissingPrecondition(db0, events[1])
    /\ event_counts["create"] = 1
    /\ db = db0

\* C6 (as claimed): a rename whose file_path has a record removes the record
\* at file_path and leaves at new_path a record with the same permissions,
\* size, file_type and internal_id and last_modified = the event timestamp;
\* the number of records and all other records are unchanged.
C6_RenameMovesTheRecord ==
    [][(/\ InLoop
        /\ validate_event(CurrentEvent)
        /\ CurrentEvent.event_type = "rename"
        /\ rows_at(db, CurrentEvent.file_path) # {}) =>
          LET e == CurrentEvent
              old == get_file_record(db, e.file_path)[1]
          IN  /\ rows_at(db', e.file_path) = {}
              /\ rows_at(db', e.new_path) =
                    {[old EXCEPT !.file_path = e.new_path,
                                 !.last_modified = e.timestamp]}
              /\ BagCardinality(db') = BagCardinality(db)
              /\ \A p \in Paths \ {e.file_path, e.new_path} :
                    rows_at(db', p) = rows_at(db, p)]_vars

\* ------------------------------------------------------------- inputs
RecA == [file_path |-> "a", permissions |-> "rw-r--r--", size |-> 10,
         file_type |-> "text/plain", last_modified |-> 1, internal_id |-> "id1"]
RecB == [file_path |-> "b", permissions |-> "rwxr-xr-x", size |-> 20,
         file_type |-> "image/png", last_modified |-> 1, internal_id |-> NoneVal]
SampleStores == {SetToBag(S) : S \in SUBSET {RecA, RecB}}

MetaFull == [permissions |-> "rw-------", size |-> 5, file_type |-> "text/csv",
             internal_id |-> "id9"]
MetaPerm == [permission |-> "rwxrwxrwx"]
MetaSizeOnly == [size |-> 7]
MetaBadSize == [size |-> UnparsableSize]
MetaMove == [perms |-> "r--r--r--", access |-> "rwx------", file_type |-> "text/csv"]

Shape(t, p, n, m) == [event_type |-> t, file_path |-> p, new_path |-> n, metadata |-> m]

EventShapes ==
    { Shape("create", "a", NoneVal, MetaFull),
      Shape("create", "b", NoneVal, MetaSizeOnly),
      Shape("create", "a", NoneVal, NoMetadata),
      Shape("create", "b", NoneVal, MetaBadSize),
      Shape("delete", "a", NoneVal, NoMetadata),
      Shape("change_permission", "a", NoneVal, MetaPerm),
      Shape("change_permission", "b", NoneVal, MetaSizeOnly),
      Shape("rename", "a", "b", NoMetadata),
      Shape("rename", "b", "a", NoMetadata),
      Shape("rename", "a", NoneVal, NoMetadata),
      Shape("move", "a", "b", MetaMove),
      Shape("move", "b", NoneVal, NoMetadata),
      Shape("move", "b", "a", MetaBadSize),
      Shape("archive", "a", NoneVal, NoMetadata),
      Shape("create", "", NoneVal, MetaFull) }

At(shape, ts) == [event_type |-> shape.event_type, file_path |-> shape.file_path,
                  timestamp |-> ts, new_path |-> shape.new_path,
                  metadata |-> shape.metadata]

EventSet == {At(s, t) : s \in EventShapes, t \in Times}
              \cup {At(Shape("delete", "b", NoneVal, NoMetadata), NotADatetime)}

Batches == UNION {[1..n -> EventSet] : n \in 0..MaxEvents}

\* C23: process_events on an empty list returns the empty map without
\* calling any method of the store: no read, no write.
C23_EmptyBatchTouchesNothing ==
    (events = <<>> /\ ep_pc # "call") =>
        /\ ep_pc = "returned"
        /\ event_counts = EmptyCounts
        /\ ev_calls = <<>>
        /\ db = db0

\* process_events has returned from a call with the empty list on a store
\* that holds records
C23_Witness ==
    /\ events = <<>> /\ ep_pc = "returned"
    /\ db0 # EmptyBag

InvalidTimestamps(evs) == {i \in 1..Len(evs) : ~IsDatetime(evs[i].timestamp)}

\* C24: a batch holding an event whose timestamp is not a valid instant does
\* not make process_events raise; each such event is counted under errors
\* and every event of the batch increments a counter.
C24_InvalidTimestampIsCounted ==
    (InvalidTimestamps(events) # {} /\ ep_pc # "call") =>
        /\ ep_pc # "raised"
        /\ ep_pc = "returned" =>
              /\ event_counts["errors"] >= Cardinality(InvalidTimestamps(events))
              /\ SumCounts(event_counts) = Len(events)

FirstPermissionKey(m) ==
    CHOOSE k \in {"permissions", "permission", "perms", "access"} \cap DOMAIN m :
        \A j \in {"permissions", "permission", "perms", "access"} \cap DOMAIN m :
            \/ k = j
            \/ k = "permissions"
            \/ k = "permission" /\ j # "permissions"
            \/ k = "perms" /\ j = "access"

\* C25: a move whose file_path has a record removes the record at file_path
\* and leaves at new_path the record with last_modified = the event
\* timestamp, permissions replaced iff one of the four keys is in metadata,
\* size replaced iff metadata has size, file_type replaced iff metadata has
\* file_type, and every other field, internal_id included, as it was.
C25_MoveOverlaysMetadata ==
    [][(/\ InLoop
        /\ validate_event(CurrentEvent)
        /\ CurrentEvent.event_type = "move"
        /\ rows_at(db, CurrentEvent.file_path) # {}) =>
          LET e == CurrentEvent
              m == e.metadata
              old == get_file_record(db, e.file_path)[1]
              keys == {"permissions", "permission", "perms", "access"} \cap DOMAIN m
          IN  /\ e.new_path # e.file_path => rows_at(db', e.file_path) = {}
              /\ rows_at(db', e.new_path) =
                    {[file_path |-> e.new_path,
                      permissions |-> IF keys # {} THEN m[FirstPermissionKey(m)]
                                      ELSE old.permissions,
                      size |-> IF "size" \in DOMAIN m THEN m["size"] ELSE old.size,
                      file_type |-> IF "file_type" \in DOMAIN m THEN m["file_type"]
                                    ELSE old.file_type,
                      last_modified |-> e.timestamp,
                      internal_id |-> old.internal_id]}]_vars

\* C35: a rename or move event whose handling fails (it is counted under
\* errors) leaves the store unchanged; in particular, when new_path is
\* already occupied by another record, the record at file_path is not lost
\* and the number of records does not decrease.
C35_FailedRenameLeavesStoreUnchanged ==
    [][(/\ InLoop
        /\ CurrentEvent.event_type \in {"rename", "move"}
        /\ event_counts'["errors"] = event_counts["errors"] + 1) =>
          /\ db' = db
          /\ BagCardinality(db') >= BagCardinality(db)
          /\ rows_at(db', CurrentEvent.file_path) = rows_at(db, CurrentEvent.file_path)]_vars

\* ------------------------------------- store calls of concurrent threads
\* Every DatabaseManager method opens its own connection and commits: one
\* call is one atomic step, a handler that makes several calls is several
\* steps, and the steps of the background worker and of a foreground call
\* on the same service interleave.
Threads == {"worker", "foreground"}

NoTask == [kind |-> "none", event_type |-> "", file_path |-> "", timestamp |-> 0,
           new_path |-> NoneVal, metadata |-> NoMetadata]
EventTask(e) == [kind |-> "event", event_type |-> e.event_type, file_path |-> e.file_path,
                 timestamp |-> e.timestamp, new_path |-> e.new_path,
                 metadata |-> e.metadata]
\* a FileOperation of type move (SyncService._execute_move_operation)
MoveOperation(p, n) == [kind |-> "operation", event_type |-> "move", file_path |-> p,
                        timestamp |-> 0, new_path |-> n, metadata |-> NoMetadata]
ImportRow(r) == [kind |-> "import", event_type |-> "", file_path |-> r.file_path,
                 timestamp |-> r.last_modified, new_path |-> NoneVal,
                 metadata |-> [permissions |-> r.permissions, size |-> r.size,
                               file_type |-> r.file_type, internal_id |-> r.internal_id]]
RowOf(task) == [file_path |-> task.file_path, permissions |-> task.metadata["permissions"],
                size |-> task.metadata["size"], file_type |-> task.metadata["file_type"],
                last_modified |-> task.timestamp,
                internal_id |-> task.metadata["internal_id"]]

StoreIdle ==
    /\ t_pc = [t \in Threads |-> "idle"]
    /\ t_task = [t \in Threads |-> NoTask]
    /\ t_rec = [t \in Threads |-> <<>>]

StoreRecords == {RecA, RecB}

StoreEvents ==
    {At(s, 2) : s \in
        { Shape("create", "a", NoneVal, MetaFull),
          Shape("delete", "a", NoneVal, NoMetadata),
          Shape("change_permission", "a", NoneVal, MetaPerm),
          Shape("rename", "a", "b", NoMetadata),
          Shape("move", "b", "a", MetaMove) }}

StoreTasks == {EventTask(e) : e \in StoreEvents} \cup {MoveOperation("b", "a")}

Finish(t) ==
    /\ t_pc' = [t_pc EXCEPT ![t] = "idle"]
    /\ t_task' = [t_task EXCEPT ![t] = NoTask]
    /\ t_rec' = [t_rec EXCEPT ![t] = <<>>]

\* the record a rename/move handler or the move executor inserts at new_path
MovedRecord(task, existing) ==
    IF task.kind = "operation"
    THEN [existing EXCEPT !.file_path = task.new_path]
    ELSE IF task.event_type = "move"
    THEN move_overlay([existing EXCEPT !.file_path = task.new_path,
                                       !.last_modified = task.timestamp], task.metadata)
    ELSE [existing EXCEPT !.file_path = task.new_path, !.last_modified = task.timestamp]

\* the first store call of a handler: existing_record = get_file_record(file_path)
StGet(t) ==
    /\ t_pc[t] = "idle"
    /\ \E task \in StoreTasks :
         LET existing == get_file_record(db, task.file_path)
             noop == \/ task.event_type = "create" /\
                          (existing # <<>> \/ create_file_record_from_event(task) = <<>>)
                     \/ task.event_type # "create" /\ existing = <<>>
                     \/ task.event_type = "change_permission" /\
                          extract_permissions_from_metadata(task.metadata) = <<>>
         IN  IF noop THEN UNCHANGED stVars
             ELSE /\ t_pc' = [t_pc EXCEPT ![t] = "write"]
                  /\ t_task' = [t_task EXCEPT ![t] = task]
                  /\ t_rec' = [t_rec EXCEPT ![t] = existing]
    /\ UNCHANGED <<db, evVars, syVars, unVars, pdVars, rnVars>>

\* the second store call of a handler
StWrite(t) ==
    /\ t_pc[t] = "write"
    /\ LET task == t_task[t]
           existing == t_rec[t]
       IN  CASE task.event_type = "change_permission" ->
                  /\ db' = update_file_record(db,
                              [existing[1] EXCEPT
                                 !.permissions = extract_permissions_from_metadata(task.metadata)[1],
                                 !.last_modified = task.timestamp])
                  /\ Finish(t)
             [] task.event_type = "delete" ->
                  /\ db' = delete_file_record(db, task.file_path)
                  /\ Finish(t)
             [] task.event_type = "create" ->
                  /\ db' = insert_file_record(db, create_file_record_from_event(task)[1]).db
                  /\ Finish(t)
             [] OTHER ->
                  /\ db' = delete_file_record(db, task.file_path)
                  /\ t_pc' = [t_pc EXCEPT ![t] = "insert"]
                  /\ UNCHANGED <<t_task, t_rec>>
    /\ UNCHANGED <<evVars, syVars, unVars, pdVars, rnVars>>

\* rename, move and the move executor: the insert that follows the delete
StInsertMoved(t) ==
    /\ t_pc[t] = "insert"
    /\ db' = insert_file_record(db, MovedRecord(t_task[t], t_rec[t][1])).db
    /\ Finish(t)
    /\ UNCHANGED <<evVars, syVars, unVars, pdVars, rnVars>>

\* import_from_csv, one row: insert, and update on IntegrityError
StImportInsert(t) ==
    /\ t_pc[t] = "idle"
    /\ \E r \in StoreRecords :
         LET ins == insert_file_record(db, r)
         IN  /\ db' = ins.db
             /\ IF ins.ok THEN UNCHANGED stVars
                ELSE /\ t_pc' = [t_pc EXCEPT ![t] = "import_conflict"]
                     /\ t_task' = [t_task EXCEPT ![t] = ImportRow(r)]
                     /\ UNCHANGED t_rec
    /\ UNCHANGED <<evVars, syVars, unVars, pdVars, rnVars>>

StImportUpdate(t) ==
    /\ t_pc[t] = "import_conflict"
    /\ db' = update_file_record(db, RowOf(t_task[t]))
    /\ Finish(t)
    /\ UNCHANGED <<evVars, syVars, unVars, pdVars, rnVars>>

\* the executors of update and delete operations, and the upsert of the create
\* executor and of _process_file: one store call each
StUpdate(t) ==
    /\ t_pc[t] = "idle"
    /\ \E r \in StoreRecords : db' = update_file_record(db, r)
    /\ UNCHANGED <<evVars, stVars, unVars, pdVars, rnVars, syVars, unVars>>

StDelete(t) ==
    /\ t_pc[t] = "idle"
    /\ \E p \in Paths : db' = delete_file_record(db, p)
    /\ UNCHANGED <<evVars, stVars, unVars, pdVars, rnVars, syVars, unVars>>

StUpsert(t) ==
    /\ t_pc[t] = "idle"
    /\ \E r \in StoreRecords : db' = upsert_file_record(db, r)
    /\ UNCHANGED <<evVars, stVars, unVars, pdVars, rnVars, syVars, unVars>>

\* ----------------------------------------------------- CSV export and diff
\* FileRecord.to_dict writes last_modified with isoformat() and the executors
\* read it back with fromisoformat(): the instant is kept, so it stays the
\* integer of the record.  internal_id = None is written as the empty field,
\* and pandas.read_csv reads an empty field as NaN.
NaN == "<NaN>"

to_csv_row(r) == [r EXCEPT !.internal_id = IF @ = NoneVal THEN "" ELSE @]

\* pandas.read_csv infers the type of a column from all its fields: a column
\* whose fields are all texts of digits holds integers, one that also has
\* empty fields holds floats, any other column holds the texts as written.
\* The tokens stand for the integer and the float read from a text of digits.
NumericTexts == {"644"}
int_of(text) == "<int 644>"
float_of(text) == "<float 644.0>"
TextColumns == {"permissions", "file_type", "internal_id"}

column_fields(file, c) == {file[i][c] : i \in 1..Len(file)}

read_csv_cell(file, c, v) ==
    IF v = "" THEN NaN
    ELSE IF column_fields(file, c) \subseteq NumericTexts THEN int_of(v)
    ELSE IF column_fields(file, c) \subseteq NumericTexts \cup {""} THEN float_of(v)
    ELSE v

read_csv_row(file, row) ==
    [row EXCEPT !.permissions = read_csv_cell(file, "permissions", @),
                !.file_type = read_csv_cell(file, "file_type", @),
                !.internal_id = read_csv_cell(file, "internal_id", @)]

\* the order of ORDER BY file_path
PathOrder == <<"a", "b">>

get_all_records(store) ==
    LET present == SelectSeq(PathOrder, LAMBDA p : rows_at(store, p) # {})
    IN  [i \in 1..Len(present) |-> get_file_record(store, present[i])[1]]

\* the rows export_to_csv writes below the header
export_to_csv(store) ==
    LET records == get_all_records(store)
    IN  [i \in 1..Len(records) |-> to_csv_row(records[i])]

read_csv(file) == [i \in 1..Len(file) |-> read_csv_row(file, file[i])]

file_paths_of(df) == {df[i].file_path : i \in 1..Len(df)}

FileOperation(type, row) ==
    [operation_type |-> type, file_path |-> row.file_path, new_path |-> NoneVal,
     metadata |-> [permissions |-> row.permissions, size |-> row.size,
                   file_type |-> row.file_type, last_modified |-> row.last_modified,
                   internal_id |-> row.internal_id]]

\* (variant) the rows of a frame become operations of type move
generate_operations_as_moves(type, df) ==
    [i \in 1..Len(df) |-> FileOperation("move", df[i])]

generate_operations(type, df) == [i \in 1..Len(df) |-> FileOperation(type, df[i])]

\* (variant) every row of the old frame counts as deleted
find_deleted_files_all(old_df, new_df) == old_df

find_deleted_files(old_df, new_df) ==
    SelectSeq(old_df, LAMBDA r : r.file_path \notin file_paths_of(new_df))

find_created_files(old_df, new_df) ==
    SelectSeq(new_df, LAMBDA r : r.file_path \notin file_paths_of(old_df))

\* an integer and a float read from the same text of digits compare equal
same_number(x, y) ==
    \E t \in NumericTexts : {x, y} \subseteq {int_of(t), float_of(t)}

\* pandas: x != y is True whenever either side is NaN
not_equal(x, y) == (x # y /\ ~same_number(x, y)) \/ x = NaN \/ y = NaN

field_changed(x, y) == not_equal(x, y) /\ ~(x = NaN /\ y = NaN)

row_changed(o, n) ==
    \/ field_changed(o.permissions, n.permissions)
    \/ o.size # n.size
    \/ field_changed(o.file_type, n.file_type)
    \/ o.last_modified # n.last_modified
    \/ field_changed(o.internal_id, n.internal_id)

\* the row of the frame at the given file_path
row_at(df, path) == df[CHOOSE i \in 1..Len(df) : df[i].file_path = path]

\* the inner merge on file_path keeps the order of the keys of its left
\* frame, the old one; the new version of each changed row is kept
find_updated_files(old_df, new_df) ==
    LET changed == SelectSeq(old_df, LAMBDA o :
                        \E j \in 1..Len(new_df) :
                            new_df[j].file_path = o.file_path /\ row_changed(o, new_df[j]))
    IN  [i \in 1..Len(changed) |-> row_at(new_df, changed[i].file_path)]

\* (variant) the updates come first in the general branch
compare_csv_files_updates_first(old_file, new_file) ==
    LET old_df == read_csv(old_file)
        new_df == read_csv(new_file)
    IN  IF old_df = <<>> /\ new_df = <<>> THEN <<>>
        ELSE IF old_df = <<>> THEN generate_operations("create", new_df)
        ELSE IF new_df = <<>> THEN generate_operations("delete", old_df)
        ELSE generate_operations("update", find_updated_files(old_df, new_df))
               \o generate_operations("delete", find_deleted_files(old_df, new_df))
               \o generate_operations("create", find_created_files(old_df, new_df))

compare_csv_files(old_file, new_file) ==
    LET old_df == read_csv(old_file)
        new_df == read_csv(new_file)
    IN  IF old_df = <<>> /\ new_df = <<>> THEN <<>>
        ELSE IF old_df = <<>> THEN generate_operations("create", new_df)
        ELSE IF new_df = <<>> THEN generate_operations("delete", old_df)
        ELSE generate_operations("delete", find_deleted_files(old_df, new_df))
               \o generate_operations("create", find_created_files(old_df, new_df))
               \o generate_operations("update", find_updated_files(old_df, new_df))

\* ------------------------------------------------------------- SyncService
\* What a collaborator does during one call is the choice of the caller's
\* action: "ok", "ok_without_id" (the save response carries no internal_id),
\* or the call to S3, to the API or to the store raises.
ExecEnvs == {"ok", "ok_without_id", "s3_error", "api_error", "db_error"}
ReportEnvs == {"ok", "db_error", "api_error"}
ExportEnvs == {"ok", "raise_before_open", "raise_while_writing"}
ConnectionStates == [s3 : BOOLEAN, api : BOOLEAN, db : BOOLEAN]

SavedId == "id-saved"
Uuid4 == "uuid4"
DefaultPermissions == "rw-r--r--"

\* sqlite3 binds a float NaN as NULL; a TEXT column stores a number as its text
to_sql(v) ==
    IF v = NaN THEN NoneVal
    ELSE IF \E t \in NumericTexts : v = int_of(t)
    THEN CHOOSE t \in NumericTexts : v = int_of(t)
    ELSE IF \E t \in NumericTexts : v = float_of(t) THEN "644.0"
    ELSE v

\* the statistics dict; a key one kind of run does not set reads as it does in
\* _report_sync_results (0, {} or absent)
NewStats ==
    [events_processed |-> 0, operations_processed |-> 0, operations_failed |-> 0,
     files_processed |-> 0, files_failed |-> 0, total_size |-> 0,
     event_counts |-> EmptyCounts, errors |-> <<>>, success |-> NoneVal]

\* (variant) the connection tests without the store query
test_connections_without_store(c) ==
    IF ~c.s3 THEN [result |-> FALSE, calls |-> <<<<"s3.test_connection", "">>>>]
    ELSE [result |-> c.api,
          calls |-> <<<<"s3.test_connection", "">>, <<"api.health_check", "">>>>]

\* _test_connections: S3, then the API, then the store; False at the first failure
test_connections(c) ==
    IF ~c.s3 THEN [result |-> FALSE, calls |-> <<<<"s3.test_connection", "">>>>]
    ELSE IF ~c.api
    THEN [result |-> FALSE,
          calls |-> <<<<"s3.test_connection", "">>, <<"api.health_check", "">>>>]
    ELSE [result |-> c.db,
          calls |-> <<<<"s3.test_connection", "">>, <<"api.health_check", "">>,
                      <<"db.get_record_count", "">>>>]

\* _process_file: [result, db, calls]
\* what each step of _process_file meets: ExecEnvs, and a failing head_object
\* or a failing save_to_disk
FileEnvs == ExecEnvs \cup {"metadata_error", "save_error"}

\* (variant) the record is written before the file is saved
process_file_record_first(store, obj, env) ==
    LET k == obj.key
        c1 == <<<<"s3.get_object_stream", k>>>>
        c1m == c1 \o <<<<"s3.get_object_metadata", k>>>>
        c2 == c1m \o <<<<"api.update_permissions", k>>>>
        c3 == c2 \o <<<<"api.save_to_disk", k>>>>
        c4 == c3 \o <<<<"db.upsert_file_record", k>>>>
        file_record == [file_path |-> k, permissions |-> DefaultPermissions,
                        size |-> obj.size, file_type |-> obj.content_type,
                        last_modified |-> obj.last_modified,
                        internal_id |-> IF env = "ok" THEN SavedId ELSE Uuid4]
    IN  CASE env = "s3_error" -> [result |-> FALSE, db |-> store, calls |-> c1]
          [] env = "metadata_error" -> [result |-> FALSE, db |-> store, calls |-> c1m]
          [] env = "api_error" -> [result |-> FALSE, db |-> store, calls |-> c2]
          [] env = "save_error" -> [result |-> FALSE, db |-> upsert_file_record(store, file_record), calls |-> c3]
          [] env = "db_error" -> [result |-> FALSE, db |-> store, calls |-> c4]
          [] OTHER -> [result |-> TRUE, db |-> upsert_file_record(store, file_record),
                       calls |-> c4]

process_file(store, obj, env) ==
    LET k == obj.key
        c1 == <<<<"s3.get_object_stream", k>>>>
        c1m == c1 \o <<<<"s3.get_object_metadata", k>>>>
        c2 == c1m \o <<<<"api.update_permissions", k>>>>
        c3 == c2 \o <<<<"api.save_to_disk", k>>>>
        c4 == c3 \o <<<<"db.upsert_file_record", k>>>>
        file_record == [file_path |-> k, permissions |-> DefaultPermissions,
                        size |-> obj.size, file_type |-> obj.content_type,
                        last_modified |-> obj.last_modified,
                        internal_id |-> IF env = "ok" THEN SavedId ELSE Uuid4]
    IN  CASE env = "s3_error" -> [result |-> FALSE, db |-> store, calls |-> c1]
          [] env = "metadata_error" -> [result |-> FALSE, db |-> store, calls |-> c1m]
          [] env = "api_error" -> [result |-> FALSE, db |-> store, calls |-> c2]
          [] env = "save_error" -> [result |-> FALSE, db |-> store, calls |-> c3]
          [] env = "db_error" -> [result |-> FALSE, db |-> store, calls |-> c4]
          [] OTHER -> [result |-> TRUE, db |-> upsert_file_record(store, file_record),
                       calls |-> c4]

\* the FileRecord the create and update executors build from the metadata
record_of_operation(op, internal_id) ==
    [file_path |-> op.file_path, permissions |-> to_sql(op.metadata.permissions),
     size |-> op.metadata.size, file_type |-> to_sql(op.metadata.file_type),
     last_modified |-> op.metadata.last_modified, internal_id |-> to_sql(internal_id)]

execute_create_operation(store, op, env) ==
    LET k == op.file_path
        c1 == <<<<"s3.get_object_stream", k>>>>
        c2 == c1 \o <<<<"api.save_to_disk", k>>>>
        c3 == c2 \o <<<<"db.upsert_file_record", k>>>>
        id == IF env = "ok" THEN SavedId ELSE op.metadata.internal_id
    IN  CASE env = "s3_error" -> [result |-> FALSE, db |-> store, calls |-> c1]
          [] env = "api_error" -> [result |-> FALSE, db |-> store, calls |-> c2]
          [] env = "db_error" -> [result |-> FALSE, db |-> store, calls |-> c3]
          [] OTHER -> [result |-> TRUE,
                       db |-> upsert_file_record(store, record_of_operation(op, id)),
                       calls |-> c3]

execute_update_operation(store, op, env) ==
    LET c == <<<<"db.update_file_record", op.file_path>>>>
    IN  IF env = "db_error" THEN [result |-> FALSE, db |-> store, calls |-> c]
        ELSE [result |-> TRUE,
              db |-> update_file_record(store,
                         record_of_operation(op, op.metadata.internal_id)),
              calls |-> c]

\* (variant) the delete is also sent to the file manager
execute_delete_operation_remote(store, op, env) ==
    LET c == <<<<"api.save_to_disk", op.file_path>>,
               <<"db.delete_file_record", op.file_path>>>>
    IN  IF env = "db_error" THEN [result |-> FALSE, db |-> store, calls |-> c]
        ELSE [result |-> TRUE, db |-> delete_file_record(store, op.file_path), calls |-> c]

execute_delete_operation(store, op, env) ==
    LET c == <<<<"db.delete_file_record", op.file_path>>>>
    IN  IF env = "db_error" THEN [result |-> FALSE, db |-> store, calls |-> c]
        ELSE [result |-> TRUE, db |-> delete_file_record(store, op.file_path), calls |-> c]

execute_move_operation(store, op, env) ==
    LET k == op.file_path
        existing == get_file_record(store, k)
        c1 == <<<<"db.get_file_record", k>>>>
        c2 == c1 \o <<<<"db.delete_file_record", k>>, <<"db.insert_file_record", op.new_path>>>>
        ins == insert_file_record(delete_file_record(store, k),
                                  [existing[1] EXCEPT !.file_path = op.new_path])
    IN  IF Falsy(op.new_path) THEN [result |-> FALSE, db |-> store, calls |-> <<>>]
        ELSE IF env = "db_error" \/ existing = <<>>
        THEN [result |-> FALSE, db |-> store, calls |-> c1]
        ELSE [result |-> ins.ok, db |-> ins.db, calls |-> c2]

\* _execute_operation catches whatever an executor raises and returns False
execute_operation(store, op, env) ==
    LET r == CASE op.operation_type = "create" -> execute_create_operation(store, op, env)
               [] op.operation_type = "update" -> execute_update_operation(store, op, env)
               [] op.operation_type = "delete" -> execute_delete_operation(store, op, env)
               [] op.operation_type = "move" -> execute_move_operation(store, op, env)
               [] OTHER -> [result |-> FALSE, db |-> store, calls |-> <<>>]
    IN  [raised |-> FALSE, result |-> r.result, db |-> r.db,
         calls |-> <<<<"_execute_operation", op.file_path>>>> \o r.calls]

\* (variant) an operation that returns False is not counted
operation_loop_body_uncounted(stats, op, r) ==
    IF r.raised
    THEN [stats EXCEPT !.operations_failed = @ + 1,
                       !.errors = Append(@, <<"Error executing", op.file_path>>)]
    ELSE IF r.result THEN [stats EXCEPT !.operations_processed = @ + 1]
    ELSE stats

\* the body of the loop over the operations, given what _execute_operation did
operation_loop_body(stats, op, r) ==
    IF r.raised
    THEN [stats EXCEPT !.operations_failed = @ + 1,
                       !.errors = Append(@, <<"Error executing", op.file_path>>)]
    ELSE IF r.result THEN [stats EXCEPT !.operations_processed = @ + 1]
    ELSE [stats EXCEPT !.operations_failed = @ + 1]

\* _report_sync_results: [raised, calls]
report_sync_results(type, env) ==
    LET c1 == <<<<"_report_sync_results", type>>, <<"db.get_record_count", "">>>>
    IN  IF env = "db_error" THEN [raised |-> TRUE, calls |-> c1]
        ELSE [raised |-> env = "api_error",
              calls |-> c1 \o <<<<"api.report_results", type>>>>]

temp_csv_path(state) ==
    IF state = "old" THEN "data/sync_state_old_T.csv" ELSE "data/sync_state_new_T.csv"

\* (variant) only the first path of the list is cleaned up
cleanup_temp_files_first_only(fs, file_paths, failing) ==
    LET existing == {p \in {file_paths[1]} : ~Falsy(p) /\ p \in DOMAIN fs}
    IN  [files |-> [f \in DOMAIN fs \ (existing \ failing) |-> fs[f]],
         warnings |-> existing \cap failing]

\* _cleanup_temp_files: os.remove raises for the paths in failing
cleanup_temp_files(fs, file_paths, failing) ==
    LET existing == {p \in {file_paths[i] : i \in 1..Len(file_paths)} :
                        ~Falsy(p) /\ p \in DOMAIN fs}
    IN  [files |-> [f \in DOMAIN fs \ (existing \ failing) |-> fs[f]],
         warnings |-> existing \cap failing]

\* export_state_to_csv: [raised, files]; a write that fails half way leaves
\* the file it opened, with the rows written so far
export_state_to_csv(fs, path, store, env) ==
    CASE env = "ok" -> [raised |-> FALSE, files |-> (path :> export_to_csv(store)) @@ fs]
      [] env = "raise_before_open" -> [raised |-> TRUE, files |-> fs]
      [] OTHER -> [raised |-> TRUE, files |-> (path :> <<>>) @@ fs]

\* the except clause of a run: success, the error message, the report attempt
except_clause(stats, message, exc) ==
    [stats EXCEPT !.success = "False", !.errors = Append(@, <<message, exc>>)]

\* (variant) a failed report is not recorded in errors
finish_run_unrecorded(stats, rep) ==
    [stats EXCEPT !.success = "True"]

\* the end of the try block of a run: success, and the report whose failure
\* is recorded and not raised
finish_run(stats, rep) ==
    [stats EXCEPT !.success = "True",
                  !.errors = IF rep.raised THEN Append(@, <<"Result reporting failed", "">>)
                             ELSE @]

\* (variant) the error of the failed report is what the run raises
reraise_report_error(exc, rep) == IF rep.raised THEN "report failed" ELSE exc

\* the bare raise that ends the except clause raises the exception the clause
\* caught, also after the report attempt inside it raised and was caught
reraise(exc, rep) == exc

\* what compare_csv_files meets when it reads the two files
DiffEnvs == {"ok", "read_error"}

\* a batch of two or more pulled events can mix offset-aware and offset-naive
\* timestamps
mixed_offsets_possible(batch) == Len(batch) >= 2

\* the caller of _report_sync_results catches what it raises and logs a warning
report_warning(rep, text) ==
    IF rep.raised THEN <<<<"logger.warning", text>>>> ELSE <<>>

NoFiles == [f \in {} |-> <<>>]

SyncIdle ==
    /\ sy_pc = "idle"
    /\ sync_type = "none"
    /\ conn = [s3 |-> TRUE, api |-> TRUE, db |-> TRUE]
    /\ sync_stats = NewStats
    /\ files = NoFiles
    /\ old_csv_path = NoneVal
    /\ new_csv_path = NoneVal
    /\ operations = <<>>
    /\ op_i = 0
    /\ objects = <<>>
    /\ obj_i = 0
    /\ calls = <<>>
    /\ run_db = EmptyBag
    /\ cleanup_warnings = {}
    /\ exception = NoneVal
    /\ outcome = "none"

\* the events the API client hands over: it parses every timestamp into a
\* datetime and passes type, path and metadata as received
SyncEvents ==
    { At(Shape("create", "a", NoneVal, MetaFull), 2),
      At(Shape("delete", "b", NoneVal, NoMetadata), 1),
      At(Shape("change_permission", "a", NoneVal, MetaPerm), 2),
      At(Shape("rename", "a", "b", NoMetadata), 2),
      At(Shape("move", "b", "a", MetaMove), 2),
      At(Shape("archive", "a", NoneVal, NoMetadata), 1) }

SyncBatches == UNION {[1..n -> SyncEvents] : n \in 0..MaxEvents}

ObjA == [key |-> "a", size |-> 10, last_modified |-> 1, content_type |-> "text/plain"]
ObjB == [key |-> "b", size |-> 20, last_modified |-> 2, content_type |-> "image/png"]

\* the bucket listings: keys in ascending order, each key once
Listings == {SelectSeq(<<ObjA, ObjB>>, LAMBDA o : o.key \in S) : S \in SUBSET Paths}

\* ---------------------------------------------------- run_incremental_sync
\* the statistics dict, and the connection tests
IncStart ==
    /\ sy_pc = "idle"
    /\ \E c \in ConnectionStates :
         LET t == test_connections(c)
         IN  /\ conn' = c
             /\ calls' = t.calls
             /\ sy_pc' = IF t.result THEN "export_old" ELSE "except"
             /\ exception' = IF t.result THEN NoneVal ELSE "Connection tests failed"
    /\ sync_type' = "incremental"
    /\ sync_stats' = NewStats
    /\ old_csv_path' = NoneVal
    /\ new_csv_path' = NoneVal
    /\ run_db' = db
    /\ UNCHANGED <<db, evVars, stVars, unVars, pdVars, rnVars, files, operations, op_i, objects, obj_i,
                   cleanup_warnings, outcome>>

\* step 1: the old state
IncExportOld ==
    /\ sy_pc = "export_old"
    /\ old_csv_path' = temp_csv_path("old")
    /\ calls' = Append(calls, <<"export_state_to_csv", temp_csv_path("old")>>)
    /\ \E env \in ExportEnvs :
         LET x == export_state_to_csv(files, temp_csv_path("old"), db, env)
         IN  /\ files' = x.files
             /\ sy_pc' = IF x.raised THEN "except" ELSE "pull"
             /\ exception' = CASE env = "ok" -> NoneVal
                                [] env = "raise_before_open" -> "cannot open CSV file"
                                [] OTHER -> "cannot write CSV file"
    /\ UNCHANGED <<db, evVars, stVars, unVars, pdVars, rnVars, sync_type, conn, sync_stats, new_csv_path,
                   operations, op_i, objects, obj_i, run_db, cleanup_warnings, outcome>>

\* step 2: the events are pulled and applied to the store
IncPullEvents ==
    /\ sy_pc = "pull"
    /\ \/ /\ calls' = Append(calls, <<"api.get_pub_sub_events", "">>)
          /\ sy_pc' = "except"
          /\ exception' = "get_pub_sub_events failed"
          /\ UNCHANGED <<db, sync_stats>>
       \/ \* get_pub_sub_events gives offset-aware timestamps to events that
          \* carry one with an offset and datetime.now(), offset-naive, to
          \* the others: sorted() raises on a batch that mixes the two
          /\ \E batch \in SyncBatches : mixed_offsets_possible(batch)
          /\ calls' = calls \o <<<<"api.get_pub_sub_events", "">>, <<"process_events", "">>>>
          /\ sy_pc' = "except"
          /\ exception' = "process_events failed"
          /\ UNCHANGED <<db, sync_stats>>
       \/ \E batch \in SyncBatches :
            LET r == process_events(db, batch)
                pulled == Append(calls, <<"api.get_pub_sub_events", "">>)
            IN  /\ calls' = IF batch = <<>> THEN pulled
                            ELSE Append(pulled, <<"process_events", "">>)
                /\ IF r.raised
                   THEN /\ sy_pc' = "except"
                        /\ exception' = "process_events failed"
                        /\ UNCHANGED <<db, sync_stats>>
                   ELSE /\ db' = r.db
                        /\ sync_stats' = [sync_stats EXCEPT !.events_processed = Len(batch),
                                                            !.event_counts = r.counts]
                        /\ sy_pc' = "export_new"
                        /\ UNCHANGED exception
    /\ UNCHANGED <<evVars, stVars, unVars, pdVars, rnVars, sync_type, conn, files, old_csv_path, new_csv_path,
                   operations, op_i, objects, obj_i, run_db, cleanup_warnings, outcome>>

\* step 3: the new state
IncExportNew ==
    /\ sy_pc = "export_new"
    /\ new_csv_path' = temp_csv_path("new")
    /\ calls' = Append(calls, <<"export_state_to_csv", temp_csv_path("new")>>)
    /\ \E env \in ExportEnvs :
         LET x == export_state_to_csv(files, temp_csv_path("new"), db, env)
         IN  /\ files' = x.files
             /\ sy_pc' = IF x.raised THEN "except" ELSE "diff"
             /\ exception' = CASE env = "ok" -> NoneVal
                                [] env = "raise_before_open" -> "cannot open CSV file"
                                [] OTHER -> "cannot write CSV file"
    /\ UNCHANGED <<db, evVars, stVars, unVars, pdVars, rnVars, sync_type, conn, sync_stats, old_csv_path,
                   operations, op_i, objects, obj_i, run_db, cleanup_warnings, outcome>>

\* step 4: process_csv_diff; compare_csv_files raises when a file is missing
\* or cannot be read, and process_csv_diff raises it again
IncDiff ==
    /\ sy_pc = "diff"
    /\ calls' = Append(calls, <<"process_csv_diff", "">>)
    /\ \E env \in DiffEnvs :
         IF ~(old_csv_path \in DOMAIN files /\ new_csv_path \in DOMAIN files)
         THEN /\ sy_pc' = "except"
              /\ exception' = "CSV file not found"
              /\ UNCHANGED <<operations, op_i>>
         ELSE IF env = "read_error"
         THEN /\ sy_pc' = "except"
              /\ exception' = "cannot read CSV file"
              /\ UNCHANGED <<operations, op_i>>
         ELSE /\ operations' = compare_csv_files(files[old_csv_path], files[new_csv_path])
              /\ op_i' = 1
              /\ sy_pc' = "exec"
              /\ UNCHANGED exception
    /\ UNCHANGED <<db, evVars, stVars, unVars, pdVars, rnVars, sync_type, conn, sync_stats, files, old_csv_path,
                   new_csv_path, objects, obj_i, run_db, cleanup_warnings, outcome>>

\* (variant) the loop over the operations is left before its first iteration
loop_done_early(i, ops) == TRUE

\* for operation in operations: the loop is over after the last operation
loop_done(i, ops) == i > Len(ops)

\* step 5: one iteration of the loop over the operations
IncExecOp ==
    /\ sy_pc = "exec"
    /\ ~loop_done(op_i, operations)
    /\ \E env \in ExecEnvs :
         LET op == operations[op_i]
             r == execute_operation(db, op, env)
         IN  /\ db' = r.db
             /\ calls' = calls \o r.calls
             /\ sync_stats' = operation_loop_body(sync_stats, op, r)
    /\ op_i' = op_i + 1
    /\ UNCHANGED <<evVars, stVars, unVars, pdVars, rnVars, sy_pc, sync_type, conn, files, old_csv_path,
                   new_csv_path, operations, objects, obj_i, run_db, cleanup_warnings,
                   exception, outcome>>

\* the loop is over: success, step 6 (the report), return
IncFinish ==
    /\ sy_pc = "exec"
    /\ loop_done(op_i, operations)
    /\ \E env \in ReportEnvs :
         LET rep == report_sync_results("incremental", env)
         IN  /\ calls' = calls \o rep.calls
                             \o report_warning(rep, "Failed to report sync results")
             /\ sync_stats' = finish_run(sync_stats, rep)
    /\ outcome' = "returned"
    /\ sy_pc' = "cleanup"
    /\ UNCHANGED <<db, evVars, stVars, unVars, pdVars, rnVars, sync_type, conn, files, old_csv_path, new_csv_path,
                   operations, op_i, objects, obj_i, run_db, cleanup_warnings, exception>>

\* the except clause: success = False, the message, one report attempt, raise
IncExcept ==
    /\ sy_pc = "except"
    /\ sync_type = "incremental"
    /\ \E env \in ReportEnvs :
         LET rep == report_sync_results("incremental", env)
         IN  /\ calls' = calls \o rep.calls
                             \o report_warning(rep, "Failed to report sync failure")
             /\ exception' = reraise(exception, rep)
    /\ sync_stats' = except_clause(sync_stats, "Incremental sync failed", exception)
    /\ outcome' = "raised"
    /\ sy_pc' = "cleanup"
    /\ UNCHANGED <<db, evVars, stVars, unVars, pdVars, rnVars, sync_type, conn, files, old_csv_path, new_csv_path,
                   operations, op_i, objects, obj_i, run_db, cleanup_warnings>>

\* the finally clause
IncCleanup ==
    /\ sy_pc = "cleanup"
    /\ \E failing \in SUBSET DOMAIN files :
         LET c == cleanup_temp_files(files, <<old_csv_path, new_csv_path>>, failing)
         IN  /\ files' = c.files
             /\ cleanup_warnings' = c.warnings
    /\ sy_pc' = "done"
    /\ UNCHANGED <<db, evVars, stVars, unVars, pdVars, rnVars, sync_type, conn, sync_stats, old_csv_path,
                   new_csv_path, operations, op_i, objects, obj_i, calls, run_db,
                   exception, outcome>>

\* -------------------------------------------------------- run_initial_sync
IniStart ==
    /\ sy_pc = "idle"
    /\ \E c \in ConnectionStates :
         LET t == test_connections(c)
         IN  /\ conn' = c
             /\ calls' = t.calls
             /\ sy_pc' = IF t.result THEN "list" ELSE "except"
             /\ exception' = IF t.result THEN NoneVal ELSE "Connection tests failed"
    /\ sync_type' = "initial"
    /\ sync_stats' = NewStats
    /\ run_db' = db
    /\ UNCHANGED <<db, evVars, stVars, unVars, pdVars, rnVars, files, old_csv_path, new_csv_path, operations,
                   op_i, objects, obj_i, cleanup_warnings, outcome>>

\* the listing of the bucket starts: it raises, or yields its objects
IniList ==
    /\ sy_pc = "list"
    /\ calls' = Append(calls, <<"s3.list_objects", "">>)
    /\ \/ /\ sy_pc' = "except"
          /\ exception' = "list_objects failed"
          /\ UNCHANGED <<objects, obj_i>>
       \/ /\ objects' \in Listings
          /\ obj_i' = 1
          /\ sy_pc' = "files"
          /\ UNCHANGED exception
    /\ UNCHANGED <<db, evVars, stVars, unVars, pdVars, rnVars, sync_type, conn, sync_stats, files, old_csv_path,
                   new_csv_path, operations, op_i, run_db, cleanup_warnings, outcome>>

\* list_objects is a generator over the pages of the bucket: after the objects
\* it has yielded, fetching the next page raises inside the loop
IniListRaises ==
    /\ sy_pc = "files"
    /\ obj_i > Len(objects)
    /\ objects # <<>>
    /\ calls' = Append(calls, <<"logger.error", "Failed to list objects in customer bucket">>)
    /\ sy_pc' = "except"
    /\ exception' = "list_objects failed"
    /\ UNCHANGED <<db, evVars, stVars, unVars, pdVars, rnVars, sync_type, conn, sync_stats, files, old_csv_path,
                   new_csv_path, operations, op_i, objects, obj_i, run_db,
                   cleanup_warnings, outcome>>

\* (variant) the size of a failed object is added too
file_loop_body_all_sizes(stats, obj, r) ==
    IF r.result
    THEN [stats EXCEPT !.files_processed = @ + 1, !.total_size = @ + obj.size]
    ELSE [stats EXCEPT !.files_failed = @ + 1, !.total_size = @ + obj.size]

\* the body of the loop over the listing, given what _process_file returned
file_loop_body(stats, obj, r) ==
    IF r.result
    THEN [stats EXCEPT !.files_processed = @ + 1, !.total_size = @ + obj.size]
    ELSE [stats EXCEPT !.files_failed = @ + 1]

IniProcessFile ==
    /\ sy_pc = "files"
    /\ obj_i <= Len(objects)
    /\ \E env \in FileEnvs :
         LET obj == objects[obj_i]
             r == process_file(db, obj, env)
         IN  /\ db' = r.db
             /\ calls' = calls \o r.calls
             /\ sync_stats' = file_loop_body(sync_stats, obj, r)
    /\ obj_i' = obj_i + 1
    /\ UNCHANGED <<evVars, stVars, unVars, pdVars, rnVars, sy_pc, sync_type, conn, files, old_csv_path,
                   new_csv_path, operations, op_i, objects, run_db, cleanup_warnings,
                   exception, outcome>>

IniFinish ==
    /\ sy_pc = "files"
    /\ obj_i > Len(objects)
    /\ \E env \in ReportEnvs :
         LET rep == report_sync_results("initial", env)
         IN  /\ calls' = calls \o rep.calls
                             \o report_warning(rep, "Failed to report sync results")
             /\ sync_stats' = finish_run(sync_stats, rep)
    /\ outcome' = "returned"
    /\ sy_pc' = "done"
    /\ UNCHANGED <<db, evVars, stVars, unVars, pdVars, rnVars, sync_type, conn, files, old_csv_path, new_csv_path,
                   operations, op_i, objects, obj_i, run_db, cleanup_warnings, exception>>

IniExcept ==
    /\ sy_pc = "except"
    /\ sync_type = "initial"
    /\ \E env \in ReportEnvs :
         LET rep == report_sync_results("initial", env)
         IN  /\ calls' = calls \o rep.calls
                             \o report_warning(rep, "Failed to report sync failure")
             /\ exception' = reraise(exception, rep)
    /\ sync_stats' = except_clause(sync_stats, "Initial sync failed", exception)
    /\ outcome' = "raised"
    /\ sy_pc' = "done"
    /\ UNCHANGED <<db, evVars, stVars, unVars, pdVars, rnVars, sync_type, conn, files, old_csv_path, new_csv_path,
                   operations, op_i, objects, obj_i, run_db, cleanup_warnings>>

DefaultSyncInterval == 300

\* no periodic loop has been started
\* the locals of a run_incremental_sync that has not been called
NoRun == [pc |-> "idle", timestamp |-> 0, old_csv_path |-> NoneVal, new_csv_path |-> NoneVal,
          old_rows |-> <<>>, new_rows |-> <<>>, operations |-> <<>>, outcome |-> "none"]

RunsIdle == runs = [t \in Threads |-> NoRun]

PeriodicIdle ==
    /\ loops = <<>>
    /\ sync_interval = DefaultSyncInterval

\* no method has been called directly
UnitIdle ==
    /\ u_op = "none"
    /\ u_arg = <<>>
    /\ u_res = <<>>

EventsIdle ==
    /\ db0 = EmptyBag
    /\ events = <<>>
    /\ sorted_events = <<>>
    /\ ev_i = 0
    /\ event_counts = EmptyCounts
    /\ ev_calls = <<>>
    /\ ep_pc = "idle"

InitStore ==
    /\ db = EmptyBag
    /\ EventsIdle
    /\ StoreIdle
    /\ SyncIdle
    /\ UnitIdle
    /\ PeriodicIdle
    /\ RunsIdle

NextStore ==
    \E t \in Threads :
        \/ StGet(t) \/ StWrite(t) \/ StInsertMoved(t)
        \/ StImportInsert(t) \/ StImportUpdate(t)
        \/ StUpdate(t) \/ StDelete(t) \/ StUpsert(t)

SpecStore == InitStore /\ [][NextStore]_vars

\* C1: after any sequence of store calls, interleaved between the background
\* worker and a foreground call, no two rows of the table have the same
\* file_path.
C1_FilePathUnique ==
    \A r1 \in BagToSet(db) :
        /\ db[r1] = 1
        /\ \A r2 \in BagToSet(db) : r1.file_path = r2.file_path => r1 = r2

\* C1 witness: a handler that read "no record at new_path or file_path" is
\* about to insert while the other thread has put a row at that path.
C1_Witness ==
    \E t \in Threads :
        LET target == IF t_pc[t] = "insert" THEN t_task[t].new_path
                      ELSE t_task[t].file_path
        IN  /\ \/ t_pc[t] = "insert"
               \/ t_pc[t] = "write" /\ t_task[t].event_type = "create"
            /\ rows_at(db, target) # {}
            /\ BagCardinality(db) = 2

InitEvents ==
    /\ db \in SampleStores
    /\ db0 = db
    /\ events \in Batches
    /\ sorted_events = <<>>
    /\ ev_i = 0
    /\ event_counts = EmptyCounts
    /\ ev_calls = <<>>
    /\ ep_pc = "call"
    /\ StoreIdle
    /\ SyncIdle
    /\ UnitIdle
    /\ PeriodicIdle
    /\ RunsIdle

NextEvents == EvCall \/ EvStep

SpecEvents == InitEvents /\ [][NextEvents]_vars

\* ------------------------------------------------ one sync run of a service
Init ==
    /\ db \in SampleStores
    /\ EventsIdle
    /\ StoreIdle
    /\ SyncIdle
    /\ UnitIdle
    /\ PeriodicIdle
    /\ RunsIdle

Next ==
    \/ IncStart \/ IncExportOld \/ IncPullEvents \/ IncExportNew \/ IncDiff
    \/ IncExecOp \/ IncFinish \/ IncExcept \/ IncCleanup
    \/ IniStart \/ IniList \/ IniListRaises \/ IniProcessFile \/ IniFinish \/ IniExcept

Spec == Init /\ [][Next]_vars

\* --------------------------------------------------- claims on the sync runs
CallsTo(callee) == SelectSeq(calls, LAMBDA c : c[1] = callee)

Ended(type) == sy_pc = "done" /\ sync_type = type

\* C7 (as stated): whenever run_incremental_sync ends, whether it returned or
\* raised, neither temporary CSV file exists any more.
C7_TempFilesAbsentAtEnd ==
    Ended("incremental") => DOMAIN files = {}

\* C7 (amended): whenever run_incremental_sync ends, whether it returned or
\* raised, the removal of every temporary CSV file it created has been
\* attempted: the files that still exist are exactly those whose removal
\* failed, for each of which _cleanup_temp_files logged a warning.
C7_TempFilesAbsentUnlessRemovalFailed ==
    Ended("incremental") => DOMAIN files = cleanup_warnings

\* C7 witness: the new-state export failed while writing, so the run raised
\* with both files on disk, and both are gone when it ends.
C7_Witness ==
    /\ Ended("incremental")
    /\ outcome = "raised"
    /\ exception = "cannot write CSV file"
    /\ old_csv_path # NoneVal
    /\ new_csv_path # NoneVal
    /\ files = NoFiles
    /\ cleanup_warnings = {}

AttemptedPaths ==
    LET a == CallsTo("_execute_operation") IN [i \in 1..Len(a) |-> a[i][2]]

OperationPaths(n) == [i \in 1..n |-> operations[i].file_path]

\* C8: in run_incremental_sync a failing diff operation never aborts the run:
\* at every point of the loop the operations attempted so far are the
\* operations of the diff, in diff order, whatever failed before; a run that
\* attempted an operation does not raise; and on return every operation was
\* attempted, operations_processed + operations_failed is the number of
\* operations and success is true.
C8_FailingOperationNeverAborts ==
    /\ sy_pc = "exec" => AttemptedPaths = OperationPaths(op_i - 1)
    /\ outcome = "raised" => AttemptedPaths = <<>>
    /\ (sync_type = "incremental" /\ outcome = "returned") =>
          /\ AttemptedPaths = OperationPaths(Len(operations))
          /\ sync_stats.operations_processed + sync_stats.operations_failed
                = Len(operations)
          /\ sync_stats.success = "True"

\* C8 witness: a run returned after both operations of its diff failed - the
\* second was attempted after the failure of the first.
C8_Witness ==
    /\ sync_type = "incremental"
    /\ outcome = "returned"
    /\ Len(operations) = 2
    /\ sync_stats.operations_failed = 2

\* C9: in every run_incremental_sync each operation counted in
\* operations_failed has one "Error executing" message in the errors list.
C9_EachFailedOperationHasAnError ==
    sync_type = "incremental" =>
        Len(SelectSeq(sync_stats.errors, LAMBDA e : e[1] = "Error executing"))
            = sync_stats.operations_failed

\* C10: when the connection tests fail, run_initial_sync and
\* run_incremental_sync list no object, export no CSV, pull no event and leave
\* the store as it was; the run sets success to false, attempts the failure
\* report once and raises.
C10_NoWorkWhenConnectionTestsFail ==
    (sync_type # "none" /\ ~(conn.s3 /\ conn.api /\ conn.db)) =>
        /\ CallsTo("s3.list_objects") = <<>>
        /\ CallsTo("export_state_to_csv") = <<>>
        /\ CallsTo("api.get_pub_sub_events") = <<>>
        /\ CallsTo("_execute_operation") = <<>>
        /\ db = run_db
        /\ files = NoFiles
        /\ sy_pc \in {"except", "cleanup", "done"}
        /\ sy_pc = "except" =>
              /\ outcome = "none"
              /\ CallsTo("_report_sync_results") = <<>>
        /\ sy_pc # "except" =>
              /\ outcome = "raised"
              /\ sync_stats.success = "False"
              /\ Len(CallsTo("_report_sync_results")) = 1

\* C10 witness: S3 and the API answered, the store query failed, and the
\* incremental run has ended.
C10_Witness ==
    /\ Ended("incremental")
    /\ conn.s3 /\ conn.api /\ ~conn.db
    /\ outcome = "raised"

ReportFailedAfterSuccess ==
    \E i \in 1..Len(calls) : calls[i] = <<"logger.warning", "Failed to report sync results">>

ReportingErrors ==
    SelectSeq(sync_stats.errors, LAMBDA e : e[1] = "Result reporting failed")

\* C11: a failure of result reporting never escalates: when the reporting
\* helper fails after an otherwise successful run_initial_sync or
\* run_incremental_sync, the run returns (it does not raise) with success true,
\* and the failure is recorded as one entry appended last to errors; a run
\* whose report succeeded has no such entry.
C11_ReportFailureNeverEscalates ==
    /\ ReportFailedAfterSuccess =>
          /\ outcome = "returned"
          /\ sync_stats.success = "True"
          /\ Len(ReportingErrors) = 1
          /\ sync_stats.errors[Len(sync_stats.errors)][1] = "Result reporting failed"
    /\ (outcome = "returned" /\ ~ReportFailedAfterSuccess) =>
          /\ sync_stats.success = "True"
          /\ ReportingErrors = <<>>
    /\ outcome = "raised" => ReportingErrors = <<>>

\* C11 witness: report_results itself failed at the end of an incremental run
\* that executed an operation, and the run returned.
C11_Witness ==
    /\ sync_type = "incremental"
    /\ outcome = "returned"
    /\ ReportFailedAfterSuccess
    /\ CallsTo("api.report_results") # <<>>
    /\ sync_stats.operations_processed >= 1

ProcessedKeys ==
    LET a == CallsTo("s3.get_object_stream") IN [i \in 1..Len(a) |-> a[i][2]]

ObjectKeys(n) == [i \in 1..n |-> objects[i].key]

\* C12: run_initial_sync handles the objects one at a time in listing order
\* and a failure on one object never stops the loop: each iteration handles
\* the next object of the listing and increments exactly one of
\* files_processed and files_failed, adding the object's size to total_size
\* only when it was processed; on return files_processed + files_failed is
\* the number of listed objects and success is true.
C12_InitialSyncCountsEveryObject ==
    /\ [][(sy_pc = "files" /\ sy_pc' = "files") =>
            LET obj == objects[obj_i]
                old == sync_stats
                new == sync_stats'
            IN  /\ obj_i' = obj_i + 1
                /\ ProcessedKeys' = Append(ProcessedKeys, obj.key)
                /\ \/ /\ new.files_processed = old.files_processed + 1
                      /\ new.files_failed = old.files_failed
                      /\ new.total_size = old.total_size + obj.size
                   \/ /\ new.files_processed = old.files_processed
                      /\ new.files_failed = old.files_failed + 1
                      /\ new.total_size = old.total_size]_vars
    /\ [](sy_pc = "files" =>
            /\ ProcessedKeys = ObjectKeys(obj_i - 1)
            /\ sync_stats.files_processed + sync_stats.files_failed = obj_i - 1)
    /\ []((sync_type = "initial" /\ outcome = "returned") =>
            /\ ProcessedKeys = ObjectKeys(Len(objects))
            /\ sync_stats.files_processed + sync_stats.files_failed = Len(objects)
            /\ sync_stats.total_size <= ObjA.size + ObjB.size
            /\ (sync_stats.files_processed = 0 => sync_stats.total_size = 0)
            /\ sync_stats.success = "True")

\* C12 witness: of two listed objects the first failed and the second was
\* processed: the run returned with the size of the second only.
C12_Witness ==
    /\ sync_type = "initial"
    /\ outcome = "returned"
    /\ Len(objects) = 2
    /\ sync_stats.files_failed = 1
    /\ sync_stats.files_processed = 1
    /\ sync_stats.total_size = objects[2].size

\* the steps of run_incremental_sync, as they appear in the log of calls
StepRank(c) ==
    CASE c = <<"export_state_to_csv", temp_csv_path("old")>> -> 1
      [] c[1] = "api.get_pub_sub_events" -> 2
      [] c[1] = "process_events" -> 3
      [] c = <<"export_state_to_csv", temp_csv_path("new")>> -> 4
      [] c[1] = "process_csv_diff" -> 5
      [] c[1] = "_execute_operation" -> 6
      [] c[1] = "_report_sync_results" -> 7
      [] OTHER -> 0

StepLog ==
    LET s == SelectSeq(calls, LAMBDA c : StepRank(c) > 0)
    IN  [i \in 1..Len(s) |-> StepRank(s[i])]

StepCount(n) == Len(SelectSeq(StepLog, LAMBDA r : r = n))

\* C27: in every run_incremental_sync that passes the connection tests the
\* steps happen in this order: export old state, pull events, apply events to
\* the store, export new state, diff old against new, execute operations,
\* report results, remove temporary files. Only the execution step repeats
\* (once per operation); a run that returns made every step (the application
\* of events iff events were pulled); no operation is executed before the
\* new-state export and no report is sent before every operation of the diff
\* has been attempted; temporary files are removed only after the report.
C27_StepsInOrder ==
    /\ [](sync_type = "incremental" =>
            /\ \A i, j \in 1..Len(StepLog) :
                  i < j => \/ StepLog[i] < StepLog[j]
                           \/ StepLog[i] = 6 /\ StepLog[j] = 6
            /\ \A i \in 1..Len(StepLog) :
                  /\ StepLog[i] = 6 => \E j \in 1..(i - 1) : StepLog[j] = 4
                  /\ StepLog[i] = 7 =>
                        Len(SelectSeq(SubSeq(StepLog, 1, i - 1), LAMBDA r : r = 6))
                            = Len(operations)
            /\ outcome = "returned" =>
                  /\ \A n \in {1, 2, 4, 5, 7} : StepCount(n) = 1
                  /\ StepCount(3) = IF sync_stats.events_processed > 0 THEN 1 ELSE 0
                  /\ StepCount(6) = Len(operations)
            /\ sy_pc = "done" => StepCount(7) = 1)
    /\ [][(sync_type' = "incremental" /\ DOMAIN files' # DOMAIN files
            /\ DOMAIN files' \subseteq DOMAIN files) =>
              /\ StepCount(7) = 1
              /\ calls' = calls
              /\ sy_pc' = "done"]_vars

\* C27 witness: a run that passed the connection tests applied events,
\* executed the two operations of its diff, reported, removed both temporary
\* files and returned.
C27_Witness ==
    /\ Ended("incremental")
    /\ outcome = "returned"
    /\ StepLog = <<1, 2, 3, 4, 5, 6, 6, 7>>
    /\ files = NoFiles

\* what the step of the given rank raises
StepErrors(rank) ==
    CASE rank \in {1, 4} -> {"cannot open CSV file", "cannot write CSV file"}
      [] rank = 2 -> {"get_pub_sub_events failed"}
      [] rank = 3 -> {"process_events failed"}
      [] rank = 5 -> {"CSV file not found", "cannot read CSV file"}
      [] OTHER -> {}

ConnectionsPassed == conn.s3 /\ conn.api /\ conn.db

\* C28: when the old-state export, the event retrieval, the event processing,
\* the new-state export or the diff raises, run_incremental_sync executes no
\* diff operation in that run, sets success to false with the error recorded,
\* attempts exactly one failure report, and raises the exception the failing
\* step raised, also when the failure report itself fails.
C28_FailedStepEndsTheRun ==
    /\ [](sync_type = "incremental" /\ ConnectionsPassed =>
            /\ sy_pc = "except" =>
                  /\ StepLog # <<>>
                  /\ exception \in StepErrors(StepLog[Len(StepLog)])
                  /\ CallsTo("_execute_operation") = <<>>
                  /\ CallsTo("_report_sync_results") = <<>>
            /\ outcome = "raised" =>
                  /\ CallsTo("_execute_operation") = <<>>
                  /\ sync_stats.success = "False"
                  /\ sync_stats.errors = <<<<"Incremental sync failed", exception>>>>
                  /\ Len(CallsTo("_report_sync_results")) = 1
                  /\ Len(StepLog) >= 2
                  /\ StepLog[Len(StepLog)] = 7
                  /\ exception \in StepErrors(StepLog[Len(StepLog) - 1]))
    /\ [][(sy_pc = "except" /\ sync_type = "incremental") =>
              /\ outcome' = "raised"
              /\ exception' = exception]_vars

\* C28 witness: the diff raised after both exports and the application of
\* events succeeded, the failure report failed too, and the run raised.
C28_Witness ==
    /\ Ended("incremental")
    /\ outcome = "raised"
    /\ StepLog = <<1, 2, 3, 4, 5, 7>>
    /\ \E i \in 1..Len(calls) : calls[i] = <<"logger.warning", "Failed to report sync failure">>

PathSet(store) == {r.file_path : r \in BagToSet(store)}

OperationTypes == {operations[i].operation_type : i \in 1..Len(operations)}

ids_at(store, path) == {r.internal_id : r \in rows_at(store, path)}

\* a returned incremental run that counted a rename of "a" to "b", started
\* with a record at "a" and none at "b", and whose operations all succeeded
RenamedAndSynced ==
    /\ Ended("incremental")
    /\ outcome = "returned"
    /\ rows_at(run_db, "a") # {}
    /\ rows_at(run_db, "b") = {}
    /\ "rename" \in DOMAIN sync_stats.event_counts
    /\ sync_stats.event_counts["rename"] >= 1
    /\ sync_stats.operations_failed = 0
    /\ sync_stats.operations_processed = Len(operations)
    /\ rows_at(db, "b") # {}

\* C37: after a complete run_incremental_sync whose events rename an existing
\* record and whose operations all succeed, the record at new_path carries the
\* internal_id the record at file_path had before the run.
C37_RenameKeepsInternalId ==
    RenamedAndSynced => ids_at(db, "b") = ids_at(run_db, "a")

\* C37 counterexample: the create operation of new_path stored the
\* internal_id of the save response in place of the record's own
C37_IdReplaced ==
    /\ RenamedAndSynced
    /\ ids_at(db, "b") = {SavedId}
    /\ ids_at(run_db, "a") = {"id1"}

\* ------------------------------------------- direct calls of single methods
\* a record at the path of RecA with other values
RecA2 == [RecA EXCEPT !.permissions = "rwxr-xr-x", !.size = 2048]
RecB2 == [RecB EXCEPT !.last_modified = 2, !.internal_id = "id2"]
\* permissions given as digits
RecA3 == [RecA EXCEPT !.permissions = "644"]
UnitRecords == {RecA, RecA2, RecA3, RecB, RecB2}

\* DatabaseManager.upsert_file_record(record) on the current table
CallUpsert ==
    /\ \E r \in UnitRecords :
         /\ db' = upsert_file_record(db, r)
         /\ u_arg' = [record |-> r, store |-> db]
    /\ u_op' = "upsert_file_record"
    /\ u_res' = <<>>
    /\ UNCHANGED <<evVars, stVars, syVars, pdVars, rnVars>>

\* FileRecord.from_dict on a row of csv.DictReader: int(size) and
\* fromisoformat(last_modified) undo str() and isoformat(); internal_id is the
\* text of the field, as read
from_dict(row) ==
    [file_path |-> row.file_path, permissions |-> row.permissions, size |-> row.size,
     file_type |-> row.file_type, last_modified |-> row.last_modified,
     internal_id |-> row.internal_id]

\* CSVProcessor.export_records_to_csv: the rows below the header
export_records_to_csv(records) == [i \in 1..Len(records) |-> to_csv_row(records[i])]

\* CSVProcessor.import_records_from_csv: a row whose fields are all empty is skipped
import_records_from_csv(file) ==
    LET rows == SelectSeq(file, LAMBDA row : ~(row.file_path = "" /\ row.permissions = ""
                                               /\ row.file_type = "" /\ row.internal_id = ""))
    IN  [i \in 1..Len(rows) |-> from_dict(rows[i])]

\* the lists of records handed to export_records_to_csv: not empty
MaxRecords == 2
RecordLists == UNION {[1..n -> UnitRecords] : n \in 1..MaxRecords}

\* export_records_to_csv(records, path) followed by import_records_from_csv(path)
CallCsvRoundTrip ==
    /\ u_op = "none"
    /\ \E records \in RecordLists :
         /\ u_arg' = records
         /\ u_res' = import_records_from_csv(export_records_to_csv(records))
    /\ u_op' = "csv_round_trip"
    /\ UNCHANGED <<db, evVars, stVars, syVars, pdVars, rnVars>>

\* the snapshots handed to compare_csv_files: each file_path at most once
Snapshots ==
    {<<>>} \cup {l \in RecordLists :
                  \A i, j \in 1..Len(l) : l[i].file_path = l[j].file_path => i = j}

\* the two snapshots are exported, then compare_csv_files reads the two files
CallCompare ==
    /\ u_op = "none"
    /\ \E old \in Snapshots, new \in Snapshots :
         /\ u_arg' = [old |-> old, new |-> new]
         /\ u_res' = compare_csv_files(export_records_to_csv(old),
                                       export_records_to_csv(new))
    /\ u_op' = "compare_csv_files"
    /\ UNCHANGED <<db, evVars, stVars, syVars, pdVars, rnVars>>

\* ---- CSVProcessor.generate_operations_from_records ----
\* _records_differ: plain inequality of the five fields; None != None is False
records_differ(old_record, new_record) ==
    \/ old_record.permissions # new_record.permissions
    \/ old_record.size # new_record.size
    \/ old_record.file_type # new_record.file_type
    \/ old_record.last_modified # new_record.last_modified
    \/ old_record.internal_id # new_record.internal_id

\* the deletes in the order of the old records, then one pass over the new
\* records that yields a create or an update as it goes
generate_operations_from_records(old_records, new_records) ==
    LET old_paths == file_paths_of(old_records)
        new_paths == file_paths_of(new_records)
        deleted == SelectSeq(old_records, LAMBDA r : r.file_path \notin new_paths)
        kept == SelectSeq(new_records, LAMBDA r :
                    \/ r.file_path \notin old_paths
                    \/ records_differ(row_at(old_records, r.file_path), r))
    IN  generate_operations("delete", deleted)
          \o [i \in 1..Len(kept) |->
                 FileOperation(IF kept[i].file_path \in old_paths THEN "update" ELSE "create",
                               kept[i])]

\* the same two snapshots handed to both diff functions
CallGenerateFromRecords ==
    /\ u_op = "none"
    /\ \E old \in Snapshots, new \in Snapshots :
         /\ u_arg' = [old |-> old, new |-> new]
         /\ u_res' = [csv |-> compare_csv_files(export_records_to_csv(old),
                                                export_records_to_csv(new)),
                      records |-> generate_operations_from_records(old, new)]
    /\ u_op' = "generate_operations_from_records"
    /\ UNCHANGED <<db, evVars, stVars, syVars, pdVars, rnVars>>

\* ---- S3Manager._retry_operation ----
MaxRetries == 3

\* what one call of the operation does
TransientErrors == {"ClientError", "EndpointConnectionError"}
CallOutcomes == {"success", "ValueError"} \cup TransientErrors

backoff_factor == 1
wait_time(attempt) == backoff_factor * (2 ^ attempt)

is_last_attempt_never(attempt, max_retries) == attempt = max_retries
is_last_attempt(attempt, max_retries) == attempt = max_retries - 1

\* the for loop from `attempt` on; outcomes[k] is what the k-th call does,
\* slept lists the time.sleep arguments so far, each with the number of
\* calls made before it
RECURSIVE retry_loop(_, _, _, _)
retry_loop(outcomes, max_retries, attempt, slept) ==
    IF attempt >= max_retries
    THEN [kind |-> "return", value |-> NoneVal, calls |-> attempt, slept |-> slept]
    ELSE LET raised == outcomes[attempt + 1]
             made == attempt + 1
         IN  IF raised = "success"
             THEN [kind |-> "return", value |-> "result", calls |-> made,
                   slept |-> slept]
             ELSE IF raised \in TransientErrors
                     /\ ~is_last_attempt(attempt, max_retries)
             THEN retry_loop(outcomes, max_retries, attempt + 1,
                             Append(slept, [after |-> made,
                                            seconds |-> wait_time(attempt)]))
             ELSE [kind |-> "raise", value |-> raised, calls |-> made,
                   slept |-> slept]

retry_operation(outcomes, max_retries) == retry_loop(outcomes, max_retries, 0, <<>>)

CallRetry ==
    /\ u_op = "none"
    /\ \E outcomes \in [1..MaxRetries -> CallOutcomes], max_retries \in 0..MaxRetries :
         /\ u_arg' = [outcomes |-> outcomes, max_retries |-> max_retries]
         /\ u_res' = retry_operation(outcomes, max_retries)
    /\ u_op' = "_retry_operation"
    /\ UNCHANGED <<db, evVars, stVars, syVars, pdVars, rnVars>>

\* ---- InfrastructureAPI ----
\* what session.request does: a response with a status code and a body, or
\* an exception (a requests.RequestException or another one)
StatusCodes == {200, 201, 204, 304, 404, 500}
RequestErrors == {"ConnectionError", "Timeout", "OSError"}
Responses ==
    [error : {NoneVal}, status_code : StatusCodes, body : {"json", "not json"}]
        \cup [error : RequestErrors, status_code : {0}, body : {""}]

is_request_exception(error) == error \in {"ConnectionError", "Timeout"}

\* Response.raise_for_status raises HTTPError for 4xx and 5xx
raise_for_status(response) == response.status_code >= 400 /\ response.status_code < 600

\* _make_request: [kind, value, requests]; requests lists the calls of
\* session.request
make_request(method, endpoint, response) ==
    LET sent == <<[method |-> method, endpoint |-> endpoint]>>
    IN  IF response.error # NoneVal
        THEN [kind |-> "raise",
              value |-> IF is_request_exception(response.error)
                        THEN "InfrastructureAPIError" ELSE response.error,
              requests |-> sent]
        ELSE IF raise_for_status(response)
        THEN [kind |-> "raise", value |-> "InfrastructureAPIError", requests |-> sent]
        ELSE [kind |-> "return", value |-> "response", requests |-> sent]

ValueError == [kind |-> "raise", value |-> "ValueError", requests |-> <<>>]

\* the try block shared by the four endpoint methods: the request, then
\* response.json(); except Exception -> InfrastructureAPIError
request_json(method, endpoint, response) ==
    LET r == make_request(method, endpoint, response)
    IN  IF r.kind = "raise" \/ response.body # "json"
        THEN [r EXCEPT !.kind = "raise", !.value = "InfrastructureAPIError"]
        ELSE [r EXCEPT !.value = "json"]

update_permissions(file_path, response) ==
    IF Falsy(file_path) THEN ValueError
    ELSE request_json("POST", "/updatePermissions", response)

SaveOperations == {"create", "update", "rename", "move", "delete", "get"}

save_to_disk_unchecked_stream(operation, file_path, file_stream, new_path, response) ==
    IF Falsy(file_path) THEN ValueError
    ELSE IF operation \notin SaveOperations THEN ValueError
    ELSE IF operation \in {"rename", "move"} /\ Falsy(new_path) THEN ValueError
    ELSE request_json("POST", "/saveToDisk", response)

save_to_disk(operation, file_path, file_stream, new_path, response) ==
    IF Falsy(file_path) THEN ValueError
    ELSE IF operation \notin SaveOperations THEN ValueError
    ELSE IF operation \in {"create", "update"} /\ Falsy(file_stream) THEN ValueError
    ELSE IF operation \in {"rename", "move"} /\ Falsy(new_path) THEN ValueError
    ELSE request_json("POST", "/saveToDisk", response)

MinCount == 1
MaxCount == 100

get_pub_sub_events(count, response) ==
    IF count < MinCount \/ count > MaxCount THEN ValueError
    ELSE request_json("GET", "/pubSubFullList", response)

\* a results dictionary is a sequence of <<key, value>> pairs
report_results(results, response) ==
    IF results = <<>> THEN ValueError
    ELSE request_json("POST", "/reportResults", response)

health_check_any_response(response) ==
    LET r == make_request("GET", "/", response)
    IN  IF r.kind = "raise" THEN [r EXCEPT !.kind = "return", !.value = "False"]
        ELSE [r EXCEPT !.value = "True"]

health_check(response) ==
    LET r == make_request("GET", "/", response)
    IN  IF r.kind = "raise" THEN [r EXCEPT !.kind = "return", !.value = "False"]
        ELSE [r EXCEPT !.value = IF response.status_code = 200 THEN "True" ELSE "False"]

\* the arguments the client is called with
FilePathArgs == {"", "a"}
OperationArgs == SaveOperations \cup {"copy"}
StreamArgs == {NoneVal, "stream"}
NewPathArgs == {NoneVal, "", "b"}
CountArgs == {0 - 1, 0, 1, 10, 100, 101}
ResultsArgs == {<<>>, <<<<"success", "True">>>>}

ApiCalls ==
    [method : {"update_permissions"}, file_path : FilePathArgs]
    \cup [method : {"save_to_disk"}, operation : OperationArgs, file_path : FilePathArgs,
          file_stream : StreamArgs, new_path : NewPathArgs]
    \cup [method : {"get_pub_sub_events"}, count : CountArgs]
    \cup [method : {"report_results"}, results : ResultsArgs]
    \cup [method : {"health_check"}]

api_call(c, response) ==
    CASE c.method = "update_permissions" -> update_permissions(c.file_path, response)
      [] c.method = "save_to_disk" ->
            save_to_disk(c.operation, c.file_path, c.file_stream, c.new_path, response)
      [] c.method = "get_pub_sub_events" -> get_pub_sub_events(c.count, response)
      [] c.method = "report_results" -> report_results(c.results, response)
      [] OTHER -> health_check(response)

\* one method of the client is called while the server answers `response`
CallApi ==
    /\ u_op = "none"
    /\ \E c \in ApiCalls, response \in Responses :
         /\ u_arg' = [call |-> c, response |-> response]
         /\ u_res' = api_call(c, response)
    /\ u_op' = "api"
    /\ UNCHANGED <<db, evVars, stVars, syVars, pdVars, rnVars>>

\* ---- SyncService._execute_operation called on one operation ----
MoveOperationTo(row, new_path) == [FileOperation("move", row) EXCEPT !.new_path = new_path]

\* the operations the diff can hand over, a move, and an unknown type
UnitOperations ==
    {FileOperation(type, r) : type \in {"create", "update", "delete", "copy"},
                              r \in UnitRecords}
        \cup {MoveOperationTo(r, n) : r \in {RecA, RecB}, n \in {NoneVal, "a", "b"}}

CallExecuteOperation ==
    /\ u_op = "none"
    /\ \E op \in UnitOperations, env \in ExecEnvs :
         LET r == execute_operation(db, op, env)
         IN  /\ u_arg' = [operation |-> op, store |-> db, env |-> env]
             /\ u_res' = r
             /\ db' = r.db
    /\ u_op' = "_execute_operation"
    /\ UNCHANGED <<evVars, stVars, syVars, pdVars, rnVars>>

\* ---- EventProcessor._extract_permissions_from_metadata ----
PermissionValues == {"rwx------", "r--r--r--", "", NoneVal, IntValue}

\* metadata with any of the four keys, with or without other keys; absent
\* metadata is the empty one
UnitMetadata ==
    LET perms == UNION {[K -> PermissionValues] :
                            K \in SUBSET {"permissions", "permission", "perms", "access"}}
    IN  perms \cup {m @@ [k \in {"file_type"} |-> "text/csv"] : m \in perms}

CallExtractPermissions ==
    /\ u_op = "none"
    /\ \E m \in UnitMetadata :
         /\ u_arg' = [metadata |-> m]
         /\ u_res' = extract_permissions_from_metadata(m)
    /\ u_op' = "_extract_permissions_from_metadata"
    /\ UNCHANGED <<db, evVars, stVars, syVars, pdVars, rnVars>>

\* ---- SyncService._test_connections ----
\* what a probe does: test_connection and health_check return True or False,
\* get_record_count returns a number; each may raise
ProbeOutcomes ==
    [s3 : {"True", "False", "raises"}, api : {"True", "False", "raises"},
     db : {"0", "2", "raises"}]

\* (variant) a probe that raises is not caught
try_check_uncaught(probe) ==
    CASE probe = "True" -> "pass" [] probe = "raises" -> "raise" [] OTHER -> "fail"

\* try: if not probe(): return False / except Exception: return False
try_check(probe) == IF probe = "True" THEN "pass" ELSE "fail"

\* try: record_count = get_record_count() / except Exception: return False
try_count(probe) == IF probe = "raises" THEN "fail" ELSE "pass"

CallTestConnections ==
    /\ u_op = "none"
    /\ \E p \in ProbeOutcomes :
         LET k == [s3 |-> try_check(p.s3), api |-> try_check(p.api), db |-> try_count(p.db)]
             t == test_connections([s3 |-> k.s3 = "pass", api |-> k.api = "pass",
                                    db |-> k.db = "pass"])
             raised == \/ k.s3 = "raise"
                       \/ k.s3 = "pass" /\ k.api = "raise"
         IN  /\ u_arg' = p
             /\ u_res' = [raised |-> raised, result |-> ~raised /\ t.result,
                          calls |-> [i \in 1..Len(t.calls) |-> t.calls[i][1]]]
    /\ u_op' = "_test_connections"
    /\ UNCHANGED <<db, evVars, stVars, syVars, pdVars, rnVars>>

\* ---- S3Manager.object_exists ----
\* what one client.head_object call does: a response, a ClientError with the
\* code of its error response, or another exception
HeadOutcomes ==
    { [class |-> "success", code |-> ""],
      [class |-> "ClientError", code |-> "404"],
      [class |-> "ClientError", code |-> "403"],
      [class |-> "EndpointConnectionError", code |-> ""],
      [class |-> "KeyError", code |-> ""] }

\* the max_retries default of _retry_operation
DefaultMaxRetries == 3

\* get_object_metadata: the head operation under _retry_operation; what is
\* raised is logged and raised again, and is the error of the last call made
get_object_metadata(heads) ==
    LET r == retry_operation([i \in 1..Len(heads) |-> heads[i].class], DefaultMaxRetries)
    IN  IF r.kind = "return"
        THEN [kind |-> "return", error |-> [class |-> "success", code |-> ""],
              calls |-> r.calls]
        ELSE [kind |-> "raise", error |-> heads[r.calls], calls |-> r.calls]

\* (variant) every ClientError means that the object does not exist
is_not_found_any_code(e) == e.class = "ClientError"

\* except ClientError as e: if e.response['Error']['Code'] == '404'
is_not_found(e) == e.class = "ClientError" /\ e.code = "404"

\* object_exists: [kind, value]: a returned "True" or "False", or the raised error
object_exists(heads) ==
    LET m == get_object_metadata(heads)
    IN  IF m.kind = "return" THEN [kind |-> "return", value |-> "True"]
        ELSE IF is_not_found(m.error) THEN [kind |-> "return", value |-> "False"]
        ELSE [kind |-> "raise", value |-> m.error.class]

CallObjectExists ==
    /\ u_op = "none"
    /\ \E heads \in [1..DefaultMaxRetries -> HeadOutcomes] :
         /\ u_arg' = [heads |-> heads, lookup |-> get_object_metadata(heads)]
         /\ u_res' = object_exists(heads)
    /\ u_op' = "object_exists"
    /\ UNCHANGED <<db, evVars, stVars, syVars, pdVars, rnVars>>

\* C13: upsert_file_record is idempotent in row count: upserting a file_path
\* that has no record adds exactly one record, upserting a file_path that has
\* one leaves the record count unchanged, and in both cases the one record at
\* that path afterwards carries the values of the upsert while the records at
\* all other paths are unchanged.
C13_UpsertIdempotentInRowCount ==
    u_op = "upsert_file_record" =>
        LET before == u_arg.store
            r == u_arg.record
        IN  /\ BagCardinality(db) = BagCardinality(before)
                   + (IF \E x \in BagToSet(before) : x.file_path = r.file_path
                      THEN 0 ELSE 1)
            /\ \A x \in BagToSet(db) : x.file_path = r.file_path => x = r
            /\ r \in BagToSet(db) /\ db[r] = 1
            /\ \A x \in UnitRecords :
                  x.file_path # r.file_path =>
                      (IF x \in BagToSet(before) THEN before[x] ELSE 0)
                          = (IF x \in BagToSet(db) THEN db[x] ELSE 0)

\* C13 witness: the path had a record with other values, and another record
\* was in the table.
C13_Witness ==
    /\ u_op = "upsert_file_record"
    /\ BagCardinality(u_arg.store) = 2
    /\ u_arg.record \notin BagToSet(u_arg.store)
    /\ \E x \in BagToSet(u_arg.store) : x.file_path = u_arg.record.file_path

\* C14: exporting a non-empty list of FileRecords to CSV and importing that
\* CSV again yields records equal field for field to the originals, a record
\* without internal_id included.
C14_CsvRoundTripKeepsRecords ==
    u_op = "csv_round_trip" => u_res = u_arg

RowsAt(snapshot, p) ==
    {to_csv_row(snapshot[i]) : i \in {k \in 1..Len(snapshot) : snapshot[k].file_path = p}}

ExpectedOperation(old, new, p, type) ==
    CASE type = "delete" -> RowsAt(old, p) # {} /\ RowsAt(new, p) = {}
      [] type = "create" -> RowsAt(old, p) = {} /\ RowsAt(new, p) # {}
      [] OTHER -> RowsAt(old, p) # {} /\ RowsAt(new, p) # {}
                    /\ RowsAt(old, p) # RowsAt(new, p)

\* C15: for two snapshots with unique file_paths compare_csv_files yields
\* exactly one delete for each path only in the old snapshot, one create for
\* each path only in the new one, one update for each shared path whose rows
\* differ in a comparison field, and no operation for an unchanged shared path.
C15_DiffIsExact ==
    u_op = "compare_csv_files" =>
        \A p \in Paths, type \in {"delete", "create", "update"} :
            Cardinality({i \in 1..Len(u_res) :
                            u_res[i].file_path = p /\ u_res[i].operation_type = type})
                = IF ExpectedOperation(u_arg.old, u_arg.new, p, type) THEN 1 ELSE 0

FirstSuccess(outcomes, n) ==
    {k \in 1..n : outcomes[k] = "success" /\ \A i \in 1..(k - 1) : outcomes[i] # "success"}

\* C16: with max_retries = n >= 1 the retry helper calls the operation at most
\* n times; while the earlier attempts raise transient errors, the first
\* attempt k <= n that succeeds makes it return that result after exactly k
\* calls; when all n attempts raise transient errors it raises the last one
\* after exactly n calls; it sleeps only between calls: one sleep after each
\* call but the last.
C16_RetryCallsAndSleeps ==
    (u_op = "_retry_operation" /\ u_arg.max_retries >= 1) =>
        LET n == u_arg.max_retries
            outcomes == u_arg.outcomes
        IN  /\ u_res.calls <= n
            /\ \A k \in FirstSuccess(outcomes, n) :
                   (\A i \in 1..(k - 1) : outcomes[i] \in TransientErrors) =>
                       /\ u_res.kind = "return" /\ u_res.value = "result"
                       /\ u_res.calls = k
            /\ (\A i \in 1..n : outcomes[i] \in TransientErrors) =>
                   /\ u_res.kind = "raise" /\ u_res.value = outcomes[n]
                   /\ u_res.calls = n
            /\ Len(u_res.slept) = u_res.calls - 1
            /\ \A i \in 1..Len(u_res.slept) : u_res.slept[i].after = i

\* a call whose last allowed attempt is the first to succeed, the earlier
\* ones having raised transient errors
C16_Witness ==
    /\ u_op = "_retry_operation"
    /\ u_arg.max_retries = MaxRetries
    /\ \A i \in 1..(MaxRetries - 1) : u_arg.outcomes[i] \in TransientErrors
    /\ u_res.kind = "return" /\ u_res.value = "result"
    /\ u_res.calls = MaxRetries /\ Len(u_res.slept) = MaxRetries - 1

InvalidInput(c) ==
    CASE c.method = "update_permissions" -> c.file_path = ""
      [] c.method = "save_to_disk" ->
            \/ c.file_path = ""
            \/ c.operation \notin {"create", "update", "rename", "move", "delete", "get"}
            \/ c.operation \in {"create", "update"} /\ c.file_stream = NoneVal
            \/ c.operation \in {"rename", "move"} /\ c.new_path = NoneVal
      [] c.method = "get_pub_sub_events" -> c.count < 1 \/ c.count > 100
      [] c.method = "report_results" -> c.results = <<>>
      [] OTHER -> FALSE

\* C17: an API client method called with invalid input (empty file_path,
\* unknown save operation, create/update without a stream, rename/move
\* without new_path, count outside 1..100, empty results) raises the
\* invalid-input error and has sent no HTTP request.
C17_NoRequestOnInvalidInput ==
    (u_op = "api" /\ InvalidInput(u_arg.call)) =>
        /\ u_res.kind = "raise" /\ u_res.value = "ValueError"
        /\ u_res.requests = <<>>

\* a create without a stream was rejected although the server was reachable
C17_Witness ==
    /\ u_op = "api"
    /\ u_arg.call.method = "save_to_disk"
    /\ u_arg.call.operation = "create" /\ u_arg.call.file_path # ""
    /\ u_arg.call.file_stream = NoneVal
    /\ u_arg.response.error = NoneVal /\ u_arg.response.status_code = 200
    /\ u_res.kind = "raise" /\ u_res.requests = <<>>

\* C18: health_check never raises; it returns True when the response status
\* is 200 and False for every other status and for every failure of the
\* request.
C18_HealthCheckNeverRaises ==
    (u_op = "api" /\ u_arg.call.method = "health_check") =>
        /\ u_res.kind = "return"
        /\ u_res.value =
               IF u_arg.response.error = NoneVal /\ u_arg.response.status_code = 200
               THEN "True" ELSE "False"

\* health_check answered False to a 204 response
C18_Witness ==
    /\ u_op = "api" /\ u_arg.call.method = "health_check"
    /\ u_arg.response.error = NoneVal /\ u_arg.response.status_code = 204
    /\ u_res.kind = "return" /\ u_res.value = "False"
    /\ Len(u_res.requests) = 1

RemoteCalls(log) ==
    SelectSeq(log, LAMBDA c : c[1] \in {"s3.get_object_stream", "s3.get_object_metadata",
                                        "s3.list_objects", "s3.test_connection",
                                        "api.save_to_disk", "api.update_permissions",
                                        "api.get_pub_sub_events", "api.report_results",
                                        "api.health_check"})

Executed(type) ==
    u_op = "_execute_operation" /\ u_arg.operation.operation_type = type

\* C21: an update operation that is executed successfully leaves exactly the
\* record built from its metadata at file_path, whether or not a record was
\* there before, and calls neither S3 nor the API.
C21_UpdateUpsertsFromMetadata ==
    (Executed("update") /\ u_res.result) =>
        /\ rows_at(db, u_arg.operation.file_path)
               = {record_of_operation(u_arg.operation,
                                      u_arg.operation.metadata.internal_id)}
        /\ RemoteCalls(u_res.calls) = <<>>

\* C22: a delete operation calls neither the API nor S3, leaves the records
\* at other paths as they were, leaves no record at file_path when it
\* succeeds, and succeeds without changing the store when there was none.
C22_DeleteIsLocalOnly ==
    Executed("delete") =>
        LET p == u_arg.operation.file_path
        IN  /\ RemoteCalls(u_res.calls) = <<>>
            /\ without_path(db, p) = without_path(u_arg.store, p)
            /\ u_res.result => rows_at(db, p) = {}
            /\ (rows_at(u_arg.store, p) = {} /\ u_arg.env # "db_error") =>
                   u_res.result /\ db = u_arg.store

\* a delete removed one of two records
C22_Witness ==
    /\ Executed("delete") /\ u_res.result
    /\ BagCardinality(u_arg.store) = 2
    /\ BagCardinality(db) = 1

AsText(value) ==
    CASE value = NoneVal -> "None"
      [] value = "<int 644>" -> "644"
      [] OTHER -> value

\* C26: permission extraction returns the value of the first of the keys
\* permissions, permission, perms, access that is in metadata, as text, and
\* nothing when none of them is in metadata or metadata is absent.
C26_FirstPermissionKeyWins ==
    u_op = "_extract_permissions_from_metadata" =>
        LET m == u_arg.metadata
        IN  IF {"permissions", "permission", "perms", "access"} \cap DOMAIN m = {}
            THEN u_res = <<>>
            ELSE u_res = <<AsText(m[FirstPermissionKey(m)])>>

\* perms and access both present with different values, perms returned
C26_Witness ==
    /\ u_op = "_extract_permissions_from_metadata"
    /\ DOMAIN u_arg.metadata = {"perms", "access", "file_type"}
    /\ u_arg.metadata["perms"] = "r--r--r--"
    /\ u_arg.metadata["access"] = "rwx------"
    /\ u_res = <<"r--r--r--">>

\* C29: _test_connections checks S3, then the API health check, then the
\* local store, and stops at the first failure: the API is not probed when S3
\* fails, the store is not queried when S3 or the API fails, and the result
\* is true iff all three checks pass (the store check passes when the record
\* count is read, whatever the count); it never raises, also when a probe
\* raises.
C29_ConnectionTestsStopAtFirstFailure ==
    u_op = "_test_connections" =>
        LET s3_ok == u_arg.s3 = "True"
            api_ok == u_arg.api = "True"
            db_ok == u_arg.db # "raises"
        IN  /\ ~u_res.raised
            /\ u_res.calls =
                  IF ~s3_ok THEN <<"s3.test_connection">>
                  ELSE IF ~api_ok THEN <<"s3.test_connection", "api.health_check">>
                  ELSE <<"s3.test_connection", "api.health_check", "db.get_record_count">>
            /\ u_res.result <=> (s3_ok /\ api_ok /\ db_ok)

\* C29 witness: S3 passed and the health check raised: the result is false
\* and the store was not queried.
C29_Witness ==
    /\ u_op = "_test_connections"
    /\ u_arg.s3 = "True" /\ u_arg.api = "raises"
    /\ ~u_res.result
    /\ u_res.calls = <<"s3.test_connection", "api.health_check">>

\* C30: object_exists(key) returns true when the metadata lookup succeeds,
\* returns false when the lookup raises a storage error (ClientError) that
\* carries code 404, and raises every other error of the lookup to the caller.
C30_ObjectExistsOnlyHides404 ==
    u_op = "object_exists" =>
        LET m == u_arg.lookup
        IN  CASE m.kind = "return" -> u_res = [kind |-> "return", value |-> "True"]
              [] m.kind = "raise" /\ m.error = [class |-> "ClientError", code |-> "404"] ->
                    u_res = [kind |-> "return", value |-> "False"]
              [] OTHER -> u_res = [kind |-> "raise", value |-> m.error.class]

\* C30 witness: the lookup failed with a 403 error on its last attempt, after
\* a 404 on an earlier one, and object_exists raised it.
C30_Witness ==
    /\ u_op = "object_exists"
    /\ u_arg.heads[1] = [class |-> "ClientError", code |-> "404"]
    /\ u_arg.lookup.calls = DefaultMaxRetries
    /\ u_arg.lookup.error = [class |-> "ClientError", code |-> "403"]
    /\ u_res = [kind |-> "raise", value |-> "ClientError"]

TypeRank(type) == CASE type = "delete" -> 1 [] type = "create" -> 2 [] OTHER -> 3

PathsOf(rows) == [i \in 1..Len(rows) |-> rows[i].file_path]

\* C31: in the list returned by compare_csv_files for two non-empty
\* snapshots every delete precedes every create and every create precedes
\* every update; when one snapshot is empty the operations follow the row
\* order of the non-empty one.
C31_OperationsAreOrdered ==
    u_op = "compare_csv_files" =>
        /\ (u_arg.old # <<>> /\ u_arg.new # <<>>) =>
              \A i, j \in 1..Len(u_res) :
                  i < j => TypeRank(u_res[i].operation_type)
                              <= TypeRank(u_res[j].operation_type)
        /\ u_arg.old = <<>> => PathsOf(u_res) = PathsOf(u_arg.new)
        /\ u_arg.new = <<>> => PathsOf(u_res) = PathsOf(u_arg.old)

\* C31 witness: the new snapshot lists the changed row before the added one,
\* and the create comes before the update.
C31_Witness ==
    /\ u_op = "compare_csv_files"
    /\ u_arg.old = <<RecA>>
    /\ u_arg.new = <<RecA2, RecB>>
    /\ [i \in 1..Len(u_res) |-> <<u_res[i].operation_type, u_res[i].file_path>>]
          = <<<<"create", "b">>, <<"update", "a">>>>

Pairs(ops) == {<<ops[i].operation_type, ops[i].file_path>> : i \in 1..Len(ops)}

\* the shared paths whose internal_id is absent on both sides and whose other
\* fields are equal
SharedAbsentId(old, new) ==
    {p \in file_paths_of(old) \cap file_paths_of(new) :
        /\ row_at(old, p) = row_at(new, p)
        /\ row_at(old, p).internal_id = NoneVal}

NoAbsentField(rows) == \A i \in 1..Len(rows) : rows[i].internal_id # NoneVal

\* C32: compare_csv_files and generate_operations_from_records disagree on
\* some inputs: for a shared path whose internal_id is absent on both sides
\* and whose other fields are equal compare_csv_files yields no operation
\* while generate_operations_from_records yields an update; on inputs with no
\* absent field the two produce the same set of (operation_type, file_path)
\* pairs.
C32_DiffFunctionsDisagreeOnAbsentFields ==
    u_op = "generate_operations_from_records" =>
        /\ \A p \in SharedAbsentId(u_arg.old, u_arg.new) :
              /\ \A t \in {"delete", "create", "update"} : <<t, p>> \notin Pairs(u_res.csv)
              /\ <<"update", p>> \in Pairs(u_res.records)
        /\ (NoAbsentField(u_arg.old) /\ NoAbsentField(u_arg.new)) =>
              Pairs(u_res.csv) = Pairs(u_res.records)

InitUnits ==
    /\ db \in SampleStores
    /\ EventsIdle
    /\ StoreIdle
    /\ SyncIdle
    /\ UnitIdle
    /\ PeriodicIdle
    /\ RunsIdle

NextUnits ==
    \/ CallUpsert
    \/ CallCsvRoundTrip
    \/ CallCompare
    \/ CallGenerateFromRecords
    \/ CallRetry
    \/ CallApi
    \/ CallExecuteOperation
    \/ CallTestConnections
    \/ CallObjectExists
    \/ CallExtractPermissions

SpecUnits == InitUnits /\ [][NextUnits]_vars

\* ---- periodic sync: SyncService.start_periodic_sync and run_daemon_mode ----
MaxWorkers == 2

\* SYNC_INTERVAL of the environment
SyncIntervals == {60, 120}

\* what run_initial_sync and run_incremental_sync do for their caller
SyncOutcomes == {"returned", "raised"}

WorkerTick == 30
ErrorWait == 60
DaemonTick == 10

\* a loop keeps next_sync_time as the seconds left until it; `last` is the
\* outcome of its latest run_incremental_sync and `elapsed` the seconds slept
\* since next_sync_time was last set (counted up to the interval)
NewLoop(kind) ==
    [kind |-> kind, pc |-> "start", remaining |-> 0, last |-> "none", elapsed |-> 0]

Alive(loop) == loop.pc \notin {"stopped", "failed"}

\* time.sleep(seconds) seen from next_sync_time
sleep(loop, seconds) ==
    [loop EXCEPT !.remaining = IF @ > seconds THEN @ - seconds ELSE 0, !.pc = "loop",
                 !.elapsed = IF @ + seconds < loop.remaining + @ THEN @ + seconds
                             ELSE loop.remaining + @]

\* next_sync_time = datetime.now() + timedelta(seconds=sync_interval)
reschedule(loop, interval) == [loop EXCEPT !.remaining = interval, !.elapsed = 0]

\* start_periodic_sync: a new thread running sync_worker, whatever threads
\* were started before
StartPeriodicSync ==
    /\ Len(loops) < MaxWorkers
    /\ \A i \in 1..Len(loops) : loops[i].kind = "worker"
    /\ loops' = Append(loops, NewLoop("worker"))
    /\ UNCHANGED <<db, evVars, stVars, syVars, unVars, rnVars, sync_interval>>

\* get_sync_status()['database_records'] read with status.get(..., 0): the
\* status of a store that cannot be read has no such key
database_records(count, readable) == IF readable THEN count ELSE 0

\* the first next_sync_time, set before the loop is entered
before_loop(loop, interval) == [reschedule(loop, interval) EXCEPT !.pc = "loop"]

\* the start of sync_worker and of run_daemon_mode: run_initial_sync comes
\* first when the status shows no record
PdStart(i) ==
    /\ loops[i].pc = "start"
    /\ \E readable \in BOOLEAN :
         loops' = [loops EXCEPT ![i] =
                      IF database_records(BagCardinality(db), readable) = 0
                      THEN [@ EXCEPT !.pc = "initial"]
                      ELSE before_loop(@, sync_interval)]
    /\ UNCHANGED <<db, evVars, stVars, syVars, unVars, rnVars, sync_interval>>

\* sync_worker logs a failing initial sync and goes on; run_daemon_mode has
\* no handler around it: the exception ends the daemon
after_initial_sync(loop, interval, initial) ==
    IF loop.kind = "daemon" /\ initial = "raised"
    THEN [loop EXCEPT !.pc = "failed"]
    ELSE before_loop(loop, interval)

\* run_initial_sync returns or raises
PdInitial(i) ==
    /\ loops[i].pc = "initial"
    /\ \E initial \in SyncOutcomes :
         loops' = [loops EXCEPT ![i] = after_initial_sync(@, sync_interval, initial)]
    /\ UNCHANGED <<db, evVars, stVars, syVars, unVars, rnVars, sync_interval>>

\* (variant) a sync is due one tick before next_sync_time
due_one_tick_early(loop) == loop.remaining <= WorkerTick

\* current_time >= next_sync_time
due(loop) == loop.remaining <= 0

\* top of the while loop
PdCheckTime(i) ==
    /\ loops[i].pc = "loop"
    /\ loops' = [loops EXCEPT ![i].pc = IF due(loops[i]) THEN "sync" ELSE "sleep"]
    /\ UNCHANGED <<db, evVars, stVars, syVars, unVars, rnVars, sync_interval>>

\* run_incremental_sync returns (the next sync is scheduled) or raises
after_sync(loop, interval, result) ==
    IF result = "returned"
    THEN [reschedule(loop, interval) EXCEPT !.pc = "sleep", !.last = result]
    ELSE [loop EXCEPT !.pc = "except", !.last = result]

PdSync(i) ==
    /\ loops[i].pc = "sync"
    /\ \E result \in SyncOutcomes :
         loops' = [loops EXCEPT ![i] = after_sync(@, sync_interval, result)]
    /\ UNCHANGED <<db, evVars, stVars, syVars, unVars, rnVars, sync_interval>>

\* time.sleep(30) of the worker, time.sleep(10) of the daemon
PdSleep(i) ==
    /\ loops[i].pc = "sleep"
    /\ loops' = [loops EXCEPT ![i] =
                    sleep(@, IF @.kind = "worker" THEN WorkerTick ELSE DaemonTick)]
    /\ UNCHANGED <<db, evVars, stVars, syVars, unVars, rnVars, sync_interval>>

\* except Exception: the next sync is scheduled; the worker then sleeps 60
\* seconds, the daemon continues at once
except_exception_exits(loop, interval) == [loop EXCEPT !.pc = "failed"]
except_exception(loop, interval) ==
    [reschedule(loop, interval) EXCEPT
        !.pc = IF loop.kind = "worker" THEN "sleep_after_error" ELSE "loop"]

PdExcept(i) ==
    /\ loops[i].pc = "except"
    /\ loops' = [loops EXCEPT ![i] = except_exception(@, sync_interval)]
    /\ UNCHANGED <<db, evVars, stVars, syVars, unVars, rnVars, sync_interval>>

PdSleepAfterError(i) ==
    /\ loops[i].pc = "sleep_after_error"
    /\ loops' = [loops EXCEPT ![i] = sleep(@, ErrorWait)]
    /\ UNCHANGED <<db, evVars, stVars, syVars, unVars, rnVars, sync_interval>>

\* KeyboardInterrupt or the end of the process: every loop ends
PdInterrupt ==
    /\ \E i \in 1..Len(loops) : Alive(loops[i])
    /\ loops' = [i \in 1..Len(loops) |->
                    IF Alive(loops[i]) THEN [loops[i] EXCEPT !.pc = "stopped"] ELSE loops[i]]
    /\ UNCHANGED <<db, evVars, stVars, syVars, unVars, rnVars, sync_interval>>

LoopStep(i) ==
    /\ i <= Len(loops)
    /\ \/ PdStart(i)
       \/ PdInitial(i)
       \/ PdCheckTime(i)
       \/ PdSync(i)
       \/ PdSleep(i)
       \/ PdExcept(i)
       \/ PdSleepAfterError(i)

\* a process that uses the service (no loop yet) or the CLI daemon
InitPeriodic ==
    /\ db \in {EmptyBag, SetToBag({RecA})}
    /\ EventsIdle
    /\ StoreIdle
    /\ SyncIdle
    /\ UnitIdle
    /\ RunsIdle
    /\ loops \in {<<>>, <<NewLoop("daemon")>>}
    /\ sync_interval \in SyncIntervals

NextPeriodic ==
    \/ StartPeriodicSync
    \/ PdInterrupt
    \/ \E i \in 1..MaxWorkers : LoopStep(i)

\* every thread gets to run and every sleep ends
SpecPeriodic ==
    InitPeriodic /\ [][NextPeriodic]_vars /\ \A i \in 1..MaxWorkers : WF_vars(LoopStep(i))

AliveWorkers == {i \in 1..Len(loops) : loops[i].kind = "worker" /\ Alive(loops[i])}

\* C19: after any number of calls of start_periodic_sync at most one worker
\* loop is alive.
C19_AtMostOneWorker == Cardinality(AliveWorkers) <= 1

LoopAt(i, pcs) == i <= Len(loops) /\ loops[i].pc \in pcs

\* C20: a run_incremental_sync that raises does not end the loop it was
\* called from (worker or daemon): the handler schedules the next sync one
\* sync_interval ahead and the loop goes on, and unless the process is
\* interrupted the loop calls run_incremental_sync again.
C20_FailingSyncNeverStopsTheLoop ==
    /\ [][\A i \in 1..Len(loops) :
            (loops[i].pc = "except" /\ loops'[i].pc \notin {"except", "stopped"}) =>
                /\ loops'[i].remaining = sync_interval
                /\ loops'[i].pc \in {"loop", "sleep_after_error"}]_vars
    /\ \A i \in 1..MaxWorkers :
          LoopAt(i, {"except"}) ~> LoopAt(i, {"sync", "stopped"})

\* a loop is calling run_incremental_sync again after a call that raised
C20_Witness ==
    \E i \in 1..Len(loops) : loops[i].pc = "sync" /\ loops[i].last = "raised"

\* a worker is calling run_incremental_sync before sync_interval seconds have
\* passed since its next_sync_time was set
SyncTooEarly ==
    \E i \in 1..Len(loops) :
        loops[i].kind = "worker" /\ loops[i].pc = "sync" /\ loops[i].elapsed < sync_interval

\* C33: the periodic worker runs one initial sync before any incremental
\* sync iff the store is empty when the worker starts, and it never starts an
\* incremental sync earlier than sync_interval seconds after the moment the
\* previous sync was scheduled from (worker start, end of the previous
\* incremental sync, or the previous failure).
C33_InitialSyncIffStoreEmpty ==
    /\ [][\A i \in 1..Len(loops) :
            (loops[i].kind = "worker" /\ loops[i].pc = "start"
                /\ loops'[i].pc \notin {"start", "stopped"}) =>
                    (loops'[i].pc = "initial" <=> db = EmptyBag)]_vars
    /\ [][\A i \in 1..Len(loops) :
            loops'[i].pc = "initial" => loops[i].pc \in {"start", "initial"}]_vars
    /\ []~SyncTooEarly

\* ---- two run_incremental_sync calls on one service and one data directory ----
\* the seconds of the wall clock a run can start in
Seconds == {1, 2}

\* (variant) the path does not depend on the time of the run
timestamped_csv_path_untimed(state, second) ==
    IF state = "old" THEN "data/sync_state_old.csv" ELSE "data/sync_state_new.csv"

\* f"data/sync_state_{state}_{timestamp}.csv", the timestamp being
\* datetime.now().strftime('%Y%m%d_%H%M%S') taken once, before the old export
timestamped_csv_path(state, second) ==
    CASE state = "old" /\ second = 1 -> "data/sync_state_old_20240101_000001.csv"
      [] state = "old" -> "data/sync_state_old_20240101_000002.csv"
      [] second = 1 -> "data/sync_state_new_20240101_000001.csv"
      [] OTHER -> "data/sync_state_new_20240101_000002.csv"

\* the batches a run pulls: at most one event
RunBatches == {b \in SyncBatches : Len(b) <= 1}

\* the loop over the operations, every collaborator answering
RECURSIVE execute_operations(_, _, _)
execute_operations(store, ops, i) ==
    IF i > Len(ops) THEN store
    ELSE execute_operations(execute_operation(store, ops[i], "ok").db, ops, i + 1)

RunUnchanged ==
    UNCHANGED <<evVars, stVars, unVars, pdVars, sy_pc, sync_type, conn, sync_stats,
                old_csv_path, new_csv_path, operations, op_i, objects, obj_i, calls,
                run_db, cleanup_warnings, exception, outcome>>

\* the call: the connection tests pass and the timestamp is taken
RnStart(t) ==
    /\ runs[t].pc = "idle"
    /\ \E second \in Seconds :
         runs' = [runs EXCEPT ![t].pc = "export_old", ![t].timestamp = second]
    /\ UNCHANGED <<db, files>>
    /\ RunUnchanged

\* step 1: open(path, 'w') replaces whatever file is at the path
RnExportOld(t) ==
    /\ runs[t].pc = "export_old"
    /\ LET path == timestamped_csv_path("old", runs[t].timestamp)
       IN  /\ files' = (path :> export_to_csv(db)) @@ files
           /\ runs' = [runs EXCEPT ![t].pc = "pull", ![t].old_csv_path = path,
                                   ![t].old_rows = export_to_csv(db)]
    /\ UNCHANGED db
    /\ RunUnchanged

\* step 2: the events are pulled and applied to the store
RnPullEvents(t) ==
    /\ runs[t].pc = "pull"
    /\ \E batch \in RunBatches : db' = process_events(db, batch).db
    /\ runs' = [runs EXCEPT ![t].pc = "export_new"]
    /\ UNCHANGED files
    /\ RunUnchanged

\* step 3: the new state
RnExportNew(t) ==
    /\ runs[t].pc = "export_new"
    /\ LET path == timestamped_csv_path("new", runs[t].timestamp)
       IN  /\ files' = (path :> export_to_csv(db)) @@ files
           /\ runs' = [runs EXCEPT ![t].pc = "diff", ![t].new_csv_path = path,
                                   ![t].new_rows = export_to_csv(db)]
    /\ UNCHANGED db
    /\ RunUnchanged

\* step 4: compare_csv_files raises FileNotFoundError when a file is missing
RnDiff(t) ==
    /\ runs[t].pc = "diff"
    /\ LET r == runs[t]
       IN  IF r.old_csv_path \in DOMAIN files /\ r.new_csv_path \in DOMAIN files
           THEN runs' = [runs EXCEPT ![t].pc = "exec",
                            ![t].operations = compare_csv_files(files[r.old_csv_path],
                                                                files[r.new_csv_path])]
           ELSE runs' = [runs EXCEPT ![t].pc = "cleanup", ![t].outcome = "raised"]
    /\ UNCHANGED <<db, files>>
    /\ RunUnchanged

\* steps 5 and 6: the operations are executed and the run returns
RnExecute(t) ==
    /\ runs[t].pc = "exec"
    /\ db' = execute_operations(db, runs[t].operations, 1)
    /\ runs' = [runs EXCEPT ![t].pc = "cleanup", ![t].outcome = "returned"]
    /\ UNCHANGED files
    /\ RunUnchanged

\* the finally clause: both paths are removed, whoever wrote the files
RnCleanup(t) ==
    /\ runs[t].pc = "cleanup"
    /\ files' = cleanup_temp_files(files, <<runs[t].old_csv_path, runs[t].new_csv_path>>,
                                   {}).files
    /\ runs' = [runs EXCEPT ![t].pc = "done"]
    /\ UNCHANGED db
    /\ RunUnchanged

InitRuns ==
    /\ db \in SampleStores
    /\ EventsIdle
    /\ StoreIdle
    /\ SyncIdle
    /\ UnitIdle
    /\ PeriodicIdle
    /\ RunsIdle

NextRuns ==
    \E t \in Threads :
        \/ RnStart(t)
        \/ RnExportOld(t)
        \/ RnPullEvents(t)
        \/ RnExportNew(t)
        \/ RnDiff(t)
        \/ RnExecute(t)
        \/ RnCleanup(t)

SpecRuns == InitRuns /\ [][NextRuns]_vars

\* the run of thread t is about to diff and a file it exported is gone or no
\* longer holds what the run wrote
LostItsFiles(t) ==
    /\ runs[t].pc = "diff"
    /\ \/ runs[t].old_csv_path \notin DOMAIN files
       \/ runs[t].new_csv_path \notin DOMAIN files
       \/ files[runs[t].old_csv_path] # runs[t].old_rows
       \/ files[runs[t].new_csv_path] # runs[t].new_rows

Started(t) == runs[t].pc # "idle"

\* C34: two run_incremental_sync runs that start within the same second
\* compute the same old-state and new-state temporary CSV paths, and runs that
\* start in different seconds compute different ones: a run finds a file it
\* needs for its diff overwritten or removed only when another run started in
\* the same second.
C34_SameSecondSamePaths ==
    \A t \in Threads : \A o \in Threads \ {t} :
        /\ (Started(t) /\ Started(o)) =>
              \A state \in {"old", "new"} :
                  (timestamped_csv_path(state, runs[t].timestamp)
                      = timestamped_csv_path(state, runs[o].timestamp))
                    <=> runs[t].timestamp = runs[o].timestamp
        /\ LostItsFiles(t) => (Started(o) /\ runs[o].timestamp = runs[t].timestamp)

\* C34 witness: the worker and the foreground call started in the same
\* second; the foreground run is over and its finally clause removed the old
\* file the worker still needs for its diff.
C34_Witness ==
    /\ runs["worker"].timestamp = runs["foreground"].timestamp
    /\ runs["foreground"].pc = "done"
    /\ runs["worker"].pc = "diff"
    /\ runs["worker"].old_csv_path \notin DOMAIN files


\* ------------------------------------- path changes in the incremental run
\* <<operation_type, file_path>> of each operation of the run, in order
OperationPairs ==
    [i \in 1..Len(operations) |-> <<operations[i].operation_type, operations[i].file_path>>]

\* the batch of the run was one rename or move event, from a path with a
\* record to a path without one
OnePathChange(type, from, to) ==
    /\ sync_type = "incremental"
    /\ sy_pc = "exec"
    /\ sync_stats.events_processed = 1
    /\ sync_stats.event_counts[type] = 1
    /\ rows_at(run_db, from) # {}
    /\ rows_at(run_db, to) = {}
    /\ rows_at(db, to) # {}

\* C38: compare_csv_files never emits an operation of type move: in
\* run_incremental_sync a rename or move event surfaces as a delete of
\* file_path followed by a create of new_path, and _execute_move_operation
\* (the only caller of insert_file_record in the service) is never reached.
C38_NoMoveOperation ==
    /\ sync_type = "incremental" => "move" \notin OperationTypes
    /\ sync_type = "incremental" =>
          \A i \in 1..Len(calls) : calls[i][1] # "db.insert_file_record"
    /\ OnePathChange("rename", "a", "b") => OperationPairs = <<<<"delete", "a">>, <<"create", "b">>>>
    /\ OnePathChange("move", "b", "a") => OperationPairs = <<<<"delete", "b">>, <<"create", "a">>>>

\* C38 witness: a run whose only event moved "b" to "a" executed the delete
\* and the create and returned.
C38_Witness ==
    /\ Ended("incremental")
    /\ outcome = "returned"
    /\ sync_stats.events_processed = 1
    /\ "move" \in DOMAIN sync_stats.event_counts
    /\ sync_stats.event_counts["move"] = 1
    /\ OperationPairs = <<<<"delete", "b">>, <<"create", "a">>>>
    /\ sync_stats.operations_processed = 2

\* ------------------------------------------- the daemon and the worker
\* C39: the daemon loop and the background worker are the same scheduler up to
\* tick length: after every outcome of the start-up initial sync and of each
\* incremental sync, success or failure, a loop goes on to the next scheduled
\* incremental sync: it leaves the initial sync and the except clause for the
\* loop, and never ends otherwise than by the interrupt of the process.
C39_BothLoopsGoOn ==
    [][\A i \in 1..Len(loops) :
          /\ i <= Len(loops')
          /\ loops[i].pc \in {"initial", "sync", "except"}
          /\ loops'[i].pc # loops[i].pc
          => loops'[i].pc \in {"loop", "sleep", "sleep_after_error", "except", "stopped"}]_vars

\* ---------------------------------------------- one object of the listing
\* the callees of the calls a step added to the log
NewCallees == [j \in 1..(Len(calls') - Len(calls)) |-> calls'[Len(calls) + j][1]]

ProcessFileSteps ==
    <<"s3.get_object_stream", "s3.get_object_metadata", "api.update_permissions",
      "api.save_to_disk", "db.upsert_file_record">>

\* the log ends with the failed call of step n of _process_file for a key
FailedAtStep(n, key) ==
    /\ Len(calls) >= n
    /\ \A j \in 1..n : calls[Len(calls) - n + j] = <<ProcessFileSteps[j], key>>

\* C40: run_initial_sync writes the FileRecord of an object only after the S3
\* content fetch, the S3 metadata lookup, the permission lookup and the API
\* save for that object, called in that order, have all succeeded; a failure
\* at any of these steps leaves the store as it was (no partial record, an
\* existing record is kept).
C40_RecordOnlyAfterAllSteps ==
    [][(sy_pc = "files" /\ obj_i' = obj_i + 1) =>
          /\ \E n \in 1..5 : NewCallees = SubSeq(ProcessFileSteps, 1, n)
          /\ Len(NewCallees) < 5 => db' = db
          /\ sync_stats'.files_failed > sync_stats.files_failed => db' = db
          /\ db' # db => /\ NewCallees = ProcessFileSteps
                         /\ sync_stats'.files_processed = sync_stats.files_processed + 1
                         /\ \A p \in Paths \ {objects[obj_i].key} :
                               rows_at(db', p) = rows_at(db, p)]_vars

\* C40 witness: the save of "a" failed after the three lookups and the record
\* the store had for "a" is still there.
C40_Witness ==
    /\ sy_pc = "files"
    /\ obj_i = 2
    /\ sync_stats.files_failed = 1
    /\ FailedAtStep(4, "a")
    /\ rows_at(db, "a") = {RecA}

====
